---- MODULE Spec2Model ----
(***************************************************************************)
(* Reconciliation-and-billing core of SDI_Fi_backend.                      *)
(*                                                                         *)
(* Time is an integer axis counted in minutes.  A bucket_ts, a timestamp,  *)
(* a validity bound and the wall clock (now) are points of that axis.      *)
(* Counters, prices and percentages are integers; an optional column that  *)
(* holds no value holds Null.                                              *)
(***************************************************************************)
EXTENDS Integers, Sequences, FiniteSets, TLC

VARIABLES
    raw,        \* MeterDataRaw rows
    canon,      \* MeterData rows (canonical series)
    now,        \* wall clock: auto_now_add of received_at, default of 'at'
    asg,        \* meter assignments (MeterAssignment, MeterOdPodAssignment, MeterSiteAssignment)
    reps,       \* MeterReplacement rows
    lock,       \* holder of the database connection lock, 0 when it is free
    runs,       \* the consolidation tasks the scheduler created
    base,       \* the canonical series when those tasks were created
    tariffs,    \* TariffAssignment rows
    vats,       \* VatRateHistory rows
    docs,       \* BillingDocument rows, each with its BillingLine rows
    exch,       \* the partner's file share: document ids per directory
    sched,      \* the scheduler loop, the tasks it created and the ingest job's progress
    out         \* what the last call of a query function returned

consVars == <<raw, canon, now>>
scopeVars == <<asg, reps>>
concVars == <<lock, runs, base>>
billVars == <<tariffs, vats, docs, exch>>

vars == <<raw, canon, now, asg, reps, lock, runs, base, tariffs, vats, docs, exch, sched, out>>

\* A column without a value (Python None, SQL NULL).
Null == 0 - 1

\* The file share before any upload.
NoFiles == [source |-> {}, processed |-> {}, error |-> {}, numbers |-> {}]

\* No query function has been called yet.
NoCall == [fn |-> "none"]

\* sched.every(seconds, job) of main.py: the jobs and their intervals, in
\* minutes.
every == [ingest |-> 15, export |-> 2, poll |-> 5]
Jobs == DOMAIN every

\* METER_NOS of the configuration.
METER_NOS == <<"M1", "M2">>

\* The scheduler before run_forever: no job has a last_run, no task exists.
\* since is now - last_run at the latest pass (Null for last_run None),
\* started the jobs the latest pass created a task for, running the tasks in
\* flight per job, raised whether a task has ended with an exception; todo,
\* ingested, failed and consolidate are the progress of the ingest job: the
\* meters still to load, those loaded, those whose loader failed, and the
\* outcome of the consolidation that ends the run.
NoSched ==
    [since |-> [j \in Jobs |-> Null], started |-> {},
     running |-> [j \in Jobs |-> 0], raised |-> FALSE,
     todo |-> METER_NOS, ingested |-> {}, failed |-> {}, consolidate |-> "none"]

(***************************************************************************)
(* Bounds of the model.                                                    *)
(***************************************************************************)
Clock == {0, 1}          \* the instants the wall clock takes
MaxRaw == 2             \* at most MaxRaw raw rows are ingested
MaxResetSteps == 5      \* largest Reset_Steps a bucket row reports
MaxCounter == 160       \* allocation stops once a synthetic counter would pass it
MaxDocs == 1            \* at most MaxDocs billing documents are created

BUCKET_MINUTES == 15
Buckets == {0, BUCKET_MINUTES}
IngestMeterNos == {"M1"}
CounterValues == {100}
ResetStepsIn == {0, MaxResetSteps}

(***************************************************************************)
(* DataSource registry: get_or_create with the defaults of each ingester.  *)
(***************************************************************************)
SourcePriority(code) ==
    CASE code = "SDI_PROC_TV" -> 80
      [] code = "SDI_PROC_BUCKETS" -> 70
      [] code = "ESTIMATE_CLIENT_SCOPE" -> 10
      [] code = "SUPPLIER_BILL" -> 5

Max2(a, b) == IF a >= b THEN a ELSE b

\* x or 0
OrZero(x) == IF x = Null THEN 0 ELSE x

(***************************************************************************)
(* Lexicographic order on key tuples, as Python compares tuples.           *)
(***************************************************************************)
TupleLess(a, b) ==
    \E i \in 1..Len(a) : a[i] < b[i] /\ \A j \in 1..(i - 1) : a[j] = b[j]

(***************************************************************************)
(* MeterDataRaw.update_or_create(defaults=payload, meter_no, bucket_ts,    *)
(* source_id): the row with that key is overwritten (its id and its        *)
(* received_at, an auto_now_add column, are kept), else a row is created.  *)
(***************************************************************************)
RawKeyed(rows, mn, bts, src) ==
    {r \in rows : r.meter_no = mn /\ r.bucket_ts = bts /\ r.source = src}

\* Row identity.  The store numbers rows in creation order; the model numbers
\* the rows of one (meter_no, timestamp, source) in creation order, so that a
\* row is identified by (meter_no, timestamp, source, id).
NewRawId(rows, p) ==
    Cardinality({r \in rows : r.meter_no = p.meter_no /\ r.timestamp = p.timestamp
                                /\ r.source = p.source}) + 1

\* A store without the lookup of update_or_create: every write adds a row.
RawAlwaysCreate(rows, payload, clock) ==
    rows \cup {[payload EXCEPT !.id = NewRawId(rows, payload), !.received_at = clock]}

RawUpdateOrCreate(rows, payload, clock) ==
    LET hit == RawKeyed(rows, payload.meter_no, payload.bucket_ts, payload.source)
    IN  IF hit # {}
        THEN LET old == CHOOSE r \in hit : \A o \in hit : r.id <= o.id
             IN  (rows \ {old}) \cup
                 {[payload EXCEPT !.id = old.id, !.received_at = old.received_at]}
        ELSE rows \cup {[payload EXCEPT !.id = NewRawId(rows, payload), !.received_at = clock]}

RawCanGrow(rows, mn, bts, src) ==
    RawKeyed(rows, mn, bts, src) # {} \/ Cardinality(rows) < MaxRaw

(***************************************************************************)
(* ingest_mysql_tv_counters, one row {tv, EA+, quality?, reset_mark?}.     *)
(* qin is the row's "quality" entry: "absent" (the key is missing, the     *)
(* default applies), "none" (the key maps to None, as the MySQL loader     *)
(* builds it when the procedure returns no such column).                   *)
(***************************************************************************)
\* row.get("quality", 95)
TVQualityCode(qin) == IF qin = "absent" THEN 95 ELSE Null

TVPayload(mn, ts, ea, qin) ==
    [id |-> 0, meter_no |-> mn, timestamp |-> ts, bucket_ts |-> ts,
     active_import |-> ea, constant |-> Null, source |-> "SDI_PROC_TV",
     quality |-> "GOOD", quality_code |-> TVQualityCode(qin),
     estimated |-> FALSE, interpolated |-> FALSE, reset_detected |-> FALSE,
     received_at |-> 0]

IngestTV(mn, ts, ea, qin) ==
    /\ RawCanGrow(raw, mn, ts, "SDI_PROC_TV")
    /\ raw' = RawUpdateOrCreate(raw, TVPayload(mn, ts, ea, qin), now)
    /\ UNCHANGED <<canon, now, scopeVars, sched, concVars, billVars, out>>

(***************************************************************************)
(* ingest_mysql_bucket_counters, one row {bucket_end, EA+_End, Reset_Steps}*)
(***************************************************************************)
\* max(10, quality_base - 10 * reset_steps), quality_base = 90
BucketQualityCode(reset_steps) == Max2(10, 90 - 10 * reset_steps)

BucketPayload(mn, ts, ea, reset_steps) ==
    [id |-> 0, meter_no |-> mn, timestamp |-> ts, bucket_ts |-> ts,
     active_import |-> ea, constant |-> Null, source |-> "SDI_PROC_BUCKETS",
     quality |-> "GOOD", quality_code |-> BucketQualityCode(reset_steps),
     estimated |-> FALSE, interpolated |-> FALSE,
     reset_detected |-> (reset_steps > 0),
     received_at |-> 0]

IngestBuckets(mn, ts, ea, reset_steps) ==
    /\ RawCanGrow(raw, mn, ts, "SDI_PROC_BUCKETS")
    /\ raw' = RawUpdateOrCreate(raw, BucketPayload(mn, ts, ea, reset_steps), now)
    /\ UNCHANGED <<canon, now, scopeVars, sched, concVars, billVars, out>>

(***************************************************************************)
(* Meter table: id, meter_no, constant.                                    *)
(***************************************************************************)
MeterIds == {1, 2, 3}
MeterNo(mid) == CASE mid = 1 -> "M1" [] mid = 2 -> "M2" [] mid = 3 -> "M3"
ScopeTypes == {"pod", "od_pod", "site"}

(***************************************************************************)
(* Scope resolver: assignment rows of a unit, point-in-time resolution.    *)
(***************************************************************************)
\* An unknown scope type falls through every branch and returns [].
AssignmentsForScope(scope, scope_id) ==
    IF scope \in ScopeTypes
    THEN {a \in asg : a.scope = scope /\ a.scope_id = scope_id}
    ELSE {}

MetersInScopeAt(scope, scope_id, at) ==
    {a.meter_id : a \in {r \in AssignmentsForScope(scope, scope_id) :
        r.valid_from <= at /\ (r.valid_to = Null \/ r.valid_to > at)}}

\* Back-compat wrapper of scope_utils: the meters active at 'at', now by default.
MetersInScopeNow(scope, scope_id) == MetersInScopeAt(scope, scope_id, now)

(***************************************************************************)
(* Canonical series helpers.                                               *)
(***************************************************************************)
CanonKeyed(cn, mn, ts) == {c \in cn : c.meter_no = mn /\ c.timestamp = ts}

\* The rows of one (meter_no, timestamp) are numbered in creation order.
NewCanonId(cn, mn, ts) == Cardinality(CanonKeyed(cn, mn, ts)) + 1

\* MeterData.filter(meter_no, timestamp__lte=bts).order_by("-timestamp").first()
\* as a set: the rows a query may return first (one row unless the key repeats).
LatestCanonAtOrBefore(cn, mn, bts) ==
    LET cand == {c \in cn : c.meter_no = mn /\ c.timestamp <= bts}
    IN  {c \in cand : \A o \in cand : o.timestamp <= c.timestamp}

(***************************************************************************)
(* Estimation allocator.                                                   *)
(***************************************************************************)
EstimateEnergy == 60

\* ScopeEstimate rows (written by the external estimate provider).
ScopeEstimates ==
    {[scope |-> "pod", scope_id |-> 1, bucket_ts |-> b, ea_plus |-> EstimateEnergy] :
        b \in Buckets}

\* float(prev_v or 0.0) + float(inc or 0.0) * w, with w = 1 / n
AllocAdd(prev_v, inc, n) == OrZero(prev_v) + (OrZero(inc) \div n)

EstimatePayload(mn, bts, ea) ==
    [id |-> 0, meter_no |-> mn, timestamp |-> bts, bucket_ts |-> bts,
     active_import |-> ea, constant |-> Null, source |-> "ESTIMATE_CLIENT_SCOPE",
     quality |-> "ESTIMATED", quality_code |-> 50,
     estimated |-> TRUE, interpolated |-> FALSE, reset_detected |-> FALSE,
     received_at |-> 0]

\* The (estimate, meter) pairs one allocation run writes, in loop order.
RECURSIVE SetToSeqBy(_, _)
SetToSeqBy(S, rank) ==
    IF S = {} THEN <<>>
    ELSE LET x == CHOOSE x \in S : \A y \in S : rank[x] <= rank[y]
         IN  <<x>> \o SetToSeqBy(S \ {x}, rank)

AllocTargets(scope, scope_id, start, end) ==
    LET ests == {e \in ScopeEstimates : e.scope = scope /\ e.scope_id = scope_id
                    /\ e.bucket_ts >= start /\ e.bucket_ts < end}
        mids == MetersInScopeNow(scope, scope_id)
        pairs == {<<e, m>> : e \in ests, m \in mids}
        rank == [p \in pairs |-> p[1].bucket_ts * (Cardinality(MeterIds) + 1) + p[2]]
    IN  SetToSeqBy(pairs, rank)

RECURSIVE AllocWrite(_, _, _, _, _)
AllocWrite(rows, cn, targets, n, clock) ==
    IF targets = <<>> THEN rows
    ELSE LET e == Head(targets)[1]
             mn == MeterNo(Head(targets)[2])
             prevs == LatestCanonAtOrBefore(cn, mn, e.bucket_ts)
             prev_v == IF prevs = {} THEN Null
                       ELSE (CHOOSE c \in prevs : \A o \in prevs : c.id <= o.id).active_import
             payload == EstimatePayload(mn, e.bucket_ts, AllocAdd(prev_v, e.ea_plus, n))
         IN  AllocWrite(RawUpdateOrCreate(rows, payload, clock), cn, Tail(targets), n, clock)

Allocate(scope, scope_id, start, end) ==
    LET targets == AllocTargets(scope, scope_id, start, end)
        n == Cardinality(MetersInScopeNow(scope, scope_id))
        written == AllocWrite(raw, canon, targets, n, now)
    IN  /\ Cardinality(written) <= MaxRaw
        /\ \A r \in written : r.active_import <= MaxCounter
        /\ raw' = written
        /\ UNCHANGED <<canon, now, scopeVars, sched, concVars, billVars, out>>

(***************************************************************************)
(* consolidate_raw_to_canonical_counters                                   *)
(***************************************************************************)
\* MeterDataRaw.filter(bucket_ts__gte=start, bucket_ts__lt=end), and the
\* meter filter when meter_nos is a non-empty list.
Candidates(rows, start, end, meter_nos) ==
    {r \in rows : /\ r.bucket_ts # Null
                  /\ r.bucket_ts >= start /\ r.bucket_ts < end
                  /\ (meter_nos = {} \/ r.meter_no \in meter_nos)}

GroupKeys(cand) == {<<r.meter_no, r.bucket_ts>> : r \in cand}
GroupRows(cand, k) == {r \in cand : r.meter_no = k[1] /\ r.bucket_ts = k[2]}

\* The sort key of rows.sort(...): (-(quality_code or 0), -priority, received_at)
CounterSortKey(r) ==
    <<0 - OrZero(r.quality_code), 0 - SourcePriority(r.source), r.received_at>>

\* The order in which an unordered query returns two rows of a group: the
\* order of creation.
FetchedBefore(r, o) ==
    \/ r.received_at < o.received_at
    \/ r.received_at = o.received_at /\ SourcePriority(r.source) > SourcePriority(o.source)
    \/ r.received_at = o.received_at /\ r.source = o.source /\ r.id < o.id

\* rows[0] after the stable sort: the least key, the earliest fetched among equals.
BestCounterRow(rows) ==
    CHOOSE r \in rows : \A o \in rows \ {r} :
        \/ TupleLess(CounterSortKey(r), CounterSortKey(o))
        \/ (CounterSortKey(r) = CounterSortKey(o) /\ FetchedBefore(r, o))

CounterDefaults(best) ==
    [id |-> 0, meter_no |-> best.meter_no, timestamp |-> best.bucket_ts,
     active_import |-> best.active_import, constant |-> best.constant,
     chosen_raw_id |-> best.id, chosen_source_code |-> best.source,
     quality |-> best.quality, estimated |-> best.estimated,
     interpolated |-> FALSE, reset_detected |-> best.reset_detected]

\* MeterData.update_or_create(defaults, meter_no, timestamp): the row found is
\* overwritten with the defaults (interpolated is not among them), else created.
\* An upsert that never looks the key up.
CanonAlwaysCreate(cn, d) ==
    cn \cup {[d EXCEPT !.id = NewCanonId(cn, d.meter_no, d.timestamp)]}

CanonUpdateOrCreate(cn, d) ==
    LET hit == CanonKeyed(cn, d.meter_no, d.timestamp)
    IN  IF hit # {}
        THEN LET old == CHOOSE c \in hit : TRUE
             IN  (cn \ {old}) \cup
                 {[d EXCEPT !.id = old.id, !.interpolated = old.interpolated]}
        ELSE cn \cup {[d EXCEPT !.id = NewCanonId(cn, d.meter_no, d.timestamp)]}

RECURSIVE UpsertGroups(_, _, _)
UpsertGroups(cn, cand, keys) ==
    IF keys = {} THEN cn
    ELSE LET k == CHOOSE k \in keys : TRUE
         IN  UpsertGroups(CanonUpdateOrCreate(cn, CounterDefaults(BestCounterRow(GroupRows(cand, k)))),
                          cand, keys \ {k})

\* get_or_none raises MultipleObjectsReturned when the key repeats: the
\* exception leaves in_transaction, which rolls the run back.
UpsertRaises(cn, keys) == \E k \in keys : Cardinality(CanonKeyed(cn, k[1], k[2])) > 1

\* The canonical series after one run over rows.
CountersResult(cn, rows, start, end, meter_nos) ==
    LET cand == Candidates(rows, start, end, meter_nos)
        keys == GroupKeys(cand)
    IN  IF UpsertRaises(cn, keys) THEN cn ELSE UpsertGroups(cn, cand, keys)

ConsolidateCounters(start, end, meter_nos) ==
    /\ canon' = CountersResult(canon, raw, start, end, meter_nos)
    /\ UNCHANGED <<raw, now, scopeVars, sched, concVars, billVars, out>>

(***************************************************************************)
(* services.py: bucketize, resolve_constant, choose_best_raw,              *)
(* upsert_meter_data_from_raw_group, consolidate_raw_to_canonical          *)
(***************************************************************************)
bucketize(ts) == (ts \div BUCKET_MINUTES) * BUCKET_MINUTES

\* Meter.constant and MeterConstantHistory rows of the meters.
MeterConstant(mn) == IF mn = "M1" THEN 1 ELSE Null
ConstantHistory == {[meter_no |-> "M2", constant |-> 2, valid_from |-> 0, valid_to |-> 15]}

resolve_constant(mn, at_ts, fallback) ==
    IF fallback # Null THEN fallback
    ELSE LET cand == {h \in ConstantHistory : h.meter_no = mn /\ h.valid_from <= at_ts}
         IN  IF cand = {} THEN MeterConstant(mn)
             ELSE LET hist == CHOOSE h \in cand : \A o \in cand : o.valid_from <= h.valid_from
                  IN  IF hist.valid_to = Null \/ hist.valid_to > at_ts
                      THEN hist.constant ELSE MeterConstant(mn)

qrank(q) ==
    CASE q = "GOOD" -> 0
      [] q = "REPLACED" -> 1
      [] q = "INTERPOLATED" -> 2
      [] q = "ESTIMATED" -> 3
      [] q = "NONE" -> 4
      [] OTHER -> 5

BoolKey(b) == IF b THEN 1 ELSE 0

ServiceSortKey(r) ==
    <<BoolKey(r.estimated), BoolKey(r.interpolated), qrank(r.quality),
      SourcePriority(r.source), 0 - r.received_at>>

choose_best_raw(rows) ==
    CHOOSE r \in rows : \A o \in rows \ {r} :
        \/ TupleLess(ServiceSortKey(r), ServiceSortKey(o))
        \/ (ServiceSortKey(r) = ServiceSortKey(o) /\ FetchedBefore(r, o))

ServiceValues(best, mn, bt) ==
    [id |-> 0, meter_no |-> mn, timestamp |-> bt,
     active_import |-> OrZero(best.active_import),
     constant |-> resolve_constant(mn, bt, best.constant),
     chosen_raw_id |-> best.id, chosen_source_code |-> best.source,
     quality |-> best.quality, estimated |-> best.estimated,
     interpolated |-> best.interpolated, reset_detected |-> best.reset_detected]

\* existing = filter(meter_no, timestamp).first(); update it, else create.
upsert_meter_data_from_raw_group(cn, mn, bt, rows) ==
    LET v == ServiceValues(choose_best_raw(rows), mn, bt)
        hit == CanonKeyed(cn, mn, bt)
    IN  IF hit # {}
        THEN LET existing == CHOOSE c \in hit : \A o \in hit : c.id <= o.id
             IN  (cn \ {existing}) \cup {[v EXCEPT !.id = existing.id]}
        ELSE cn \cup {[v EXCEPT !.id = NewCanonId(cn, mn, bt)]}

ServiceBucket(r) == IF r.bucket_ts # Null THEN r.bucket_ts ELSE bucketize(r.timestamp)

ServiceCandidates(rows, start, end, meter_nos) ==
    {r \in rows : /\ r.timestamp >= start /\ r.timestamp < end
                  /\ (meter_nos = {} \/ r.meter_no \in meter_nos)}

ServiceGroupKeys(cand) == {<<r.meter_no, ServiceBucket(r)>> : r \in cand}
ServiceGroupRows(cand, k) == {r \in cand : r.meter_no = k[1] /\ ServiceBucket(r) = k[2]}

RECURSIVE ServiceUpsertGroups(_, _, _)
ServiceUpsertGroups(cn, cand, keys) ==
    IF keys = {} THEN cn
    ELSE LET k == CHOOSE k \in keys : TRUE
         IN  ServiceUpsertGroups(
                 upsert_meter_data_from_raw_group(cn, k[1], k[2], ServiceGroupRows(cand, k)),
                 cand, keys \ {k})

ServicesResult(cn, rows, start, end, meter_nos) ==
    LET cand == ServiceCandidates(rows, start, end, meter_nos)
    IN  ServiceUpsertGroups(cn, cand, ServiceGroupKeys(cand))

consolidate_raw_to_canonical(start, end, meter_nos) ==
    /\ canon' = ServicesResult(canon, raw, start, end, meter_nos)
    /\ UNCHANGED <<raw, now, scopeVars, sched, concVars, billVars, out>>

(***************************************************************************)
(* Delta engine: energy_by_band (billing aggregate), energies_for_meter    *)
(* and fetch_energy_db_meterdata (reporting buckets).  The active-import   *)
(* channel stands for every channel: the code applies one function to each.*)
(***************************************************************************)
\* The rows of a query in order_by("timestamp") order.
RECURSIVE OrderByTimestamp(_)
OrderByTimestamp(rows) ==
    IF rows = {} THEN <<>>
    ELSE LET r == CHOOSE r \in rows : \A o \in rows :
                      r.timestamp < o.timestamp \/ (r.timestamp = o.timestamp /\ r.id <= o.id)
         IN  <<r>> \o OrderByTimestamp(rows \ {r})

\* x or 1.0
OrOne(x) == IF x = Null \/ x = 0 THEN 1 ELSE x

\* A step that is not clamped.
NoClamp(step) == step

\* if step < 0: step = 0.0
Clamp(step) == IF step < 0 THEN 0 ELSE step

RECURSIVE DeltaFrom(_, _)
DeltaFrom(buckets, i) ==
    IF i > Len(buckets) THEN 0
    ELSE Clamp((buckets[i].active_import - buckets[i - 1].active_import)
                  * OrOne(buckets[i].constant))
         + DeltaFrom(buckets, i + 1)

\* qtys["A+"]
energy_by_band(cn, mn, s, e) ==
    LET buckets == OrderByTimestamp({c \in cn : c.meter_no = mn /\ c.timestamp >= s
                                                /\ c.timestamp < e})
    IN  IF buckets = <<>> THEN 0 ELSE DeltaFrom(buckets, 2)

\* floor_bucket(ts, "minute", minute_bucket)
floor_bucket(ts, minute_bucket) == (ts \div minute_bucket) * minute_bucket

LookBackMinutes == 60

\* d("active_import") of a pair of consecutive rows
PairDelta(prev, cur) ==
    IF prev.active_import = Null \/ cur.active_import = Null THEN 0
    ELSE Max2(cur.active_import - prev.active_import, 0)

\* The (prev, cur) pairs of the loop that pass the end_ts test.
EnergyPairs(rows, start, end) ==
    {i \in 2..Len(rows) : ~(rows[i].timestamp <= start \/ rows[i].timestamp > end)}

RECURSIVE SumPairs(_, _, _)
SumPairs(rows, idx, bstart) ==
    IF idx = {} THEN 0
    ELSE LET i == CHOOSE i \in idx : TRUE
         IN  (IF floor_bucket(rows[i - 1].timestamp, BUCKET_MINUTES) = bstart
              THEN PairDelta(rows[i - 1], rows[i]) ELSE 0)
             + SumPairs(rows, idx \ {i}, bstart)

\* The reporting buckets, as a set of records.
energies_for_meter(cn, mn, start, end) ==
    LET rows == OrderByTimestamp({c \in cn : c.meter_no = mn
                                     /\ c.timestamp >= start - LookBackMinutes
                                     /\ c.timestamp < end})
        idx == EnergyPairs(rows, start, end)
        starts == {floor_bucket(rows[i - 1].timestamp, BUCKET_MINUTES) : i \in idx}
    IN  {[bucket_start |-> b, bucket_end |-> b + BUCKET_MINUTES,
          ea_plus |-> SumPairs(rows, idx, b)] : b \in starts}

\* The columns of MeterData that the delta engine can name.
MeterDataColumns ==
    {"id", "meter_no", "timestamp", "active_import", "constant", "quality",
     "estimated", "interpolated", "reset_detected"}

\* qs.values("timestamp", "fa", "fr", "ra")
FetchColumns == {"timestamp", "fa", "fr", "ra"}

HourMinutes == 60

RECURSIVE SumFa(_, _, _)
SumFa(rows, i, bstart) ==
    IF i > Len(rows) THEN 0
    ELSE (IF floor_bucket(rows[i].timestamp, HourMinutes) = bstart
          THEN (IF i = 1 THEN 0
                ELSE Max2(Clamp(OrZero(rows[i]["fa"]) - OrZero(rows[i - 1]["fa"])), 0))
          ELSE 0)
         + SumFa(rows, i + 1, bstart)

\* values() of a column the model does not have raises FieldError; otherwise
\* the positive deltas of a bucket are summed and scaled by the constant.
fetch_energy_db_meterdata(cn, mn, constant, date_from, date_to) ==
    IF ~(FetchColumns \subseteq MeterDataColumns)
    THEN [raised |-> "FieldError", items |-> {}]
    ELSE LET rows == OrderByTimestamp({c \in cn : c.meter_no = mn
                                         /\ c.timestamp >= date_from
                                         /\ c.timestamp <= date_to})
             starts == {floor_bucket(rows[i].timestamp, HourMinutes) : i \in 1..Len(rows)}
         IN  [raised |-> "",
              items |-> {[bucket_start |-> b,
                          ea_plus |-> SumFa(rows, 1, b) * OrOne(constant)] : b \in starts}]

CallEnergyByBand(mn, s, e) ==
    /\ out' = [fn |-> "energy_by_band", meter_no |-> mn, s |-> s, e |-> e,
               qty |-> energy_by_band(canon, mn, s, e)]
    /\ UNCHANGED <<consVars, scopeVars, sched, concVars, billVars>>

CallEnergiesForMeter(mn, start, end) ==
    /\ out' = [fn |-> "energies_for_meter", meter_no |-> mn, s |-> start, e |-> end,
               items |-> energies_for_meter(canon, mn, start, end)]
    /\ UNCHANGED <<consVars, scopeVars, sched, concVars, billVars>>

CallFetchEnergyDb(mn, constant, date_from, date_to) ==
    /\ out' = [fn |-> "fetch_energy_db_meterdata", meter_no |-> mn,
               s |-> date_from, e |-> date_to,
               items |-> fetch_energy_db_meterdata(canon, mn, constant, date_from, date_to).items]
    /\ UNCHANGED <<consVars, scopeVars, sched, concVars, billVars>>

(***************************************************************************)
(* Billing: services.py, resolve_vat_rate_at .. create_bill_for_scope.     *)
(* A query that returns a row or None is a set with at most one row.       *)
(***************************************************************************)
\* Python round() of the rational n / d, d > 0: ties go to the even integer.
PyRound(n, d) ==
    LET q == n \div d
        r == n % d
    IN  IF 2 * r < d THEN q
        ELSE IF 2 * r > d THEN q + 1
        ELSE IF q % 2 = 0 THEN q ELSE q + 1

\* Rounding that drops the fraction.
Truncate(n, d) == n \div d

resolve_vat_rate_at(at_ts) ==
    LET cand == {v \in vats : v.valid_from <= at_ts}
    IN  IF cand = {} THEN 0
        ELSE LET vat == CHOOSE v \in cand : \A o \in cand :
                            o.valid_from < v.valid_from
                            \/ (o.valid_from = v.valid_from /\ v.id <= o.id)
             IN  IF vat.valid_to = Null \/ vat.valid_to > at_ts
                 THEN vat.rate_percent ELSE 0

\* Every assignment row of the unit, whatever its validity; [] for a scope
\* that is none of the three.
meters_in_scope(scope, scope_id) ==
    IF scope \in ScopeTypes
    THEN {a.meter_id : a \in {r \in asg : r.scope = scope /\ r.scope_id = scope_id}}
    ELSE {}

\* order_by("-is_primary", "-valid_from").first()
FirstPrimaryLatest(rows) ==
    IF rows = {} THEN {}
    ELSE {CHOOSE t \in rows : \A o \in rows \ {t} :
              \/ (t.is_primary /\ ~o.is_primary)
              \/ (t.is_primary = o.is_primary /\ t.valid_from > o.valid_from)
              \/ (t.is_primary = o.is_primary /\ t.valid_from = o.valid_from /\ t.id < o.id)}

tariff_assignment_at(scope, scope_id, at_ts, operator) ==
    LET valid_q(rows) == {t \in rows :
                              /\ (t.valid_from = Null \/ t.valid_from <= at_ts)
                              /\ (t.valid_to = Null \/ t.valid_to > at_ts)}
        at_pod == IF scope = "pod"
                  THEN FirstPrimaryLatest(valid_q({t \in tariffs : t.pod_id = scope_id}))
                  ELSE {}
        at_od == IF at_pod = {} /\ scope \in {"pod", "od_pod"}
                 THEN FirstPrimaryLatest(valid_q({t \in tariffs : t.od_pod_id = scope_id}))
                 ELSE at_pod
        ta == IF at_od = {}
              THEN FirstPrimaryLatest(valid_q({t \in tariffs : t.site_id = scope_id}))
              ELSE at_od
        alt == {a \in tariffs : \E t \in ta :
                   /\ operator # "" /\ t.operator # "" /\ t.operator # operator
                   /\ a.id = t.id /\ a.operator = operator}
    IN  IF alt # {} THEN alt ELSE ta

\* Tariff, TariffOperatorPrice (price in tenths of a cent) and Offer rows.
TariffCode(tariff_id) == IF tariff_id = 1 THEN "T1" ELSE "T2"
OperatorPrices == {[tariff_id |-> 2, operator |-> "OPA", price_mills |-> 405]}
Offers == {}

offer_for(scope, scope_id, tariff_id, operator, at_ts) ==
    LET offers == {o \in Offers :
                      /\ o.tariff_id = tariff_id /\ o.active /\ o.valid_from <= at_ts
                      /\ (o.valid_to = Null \/ o.valid_to > at_ts)
                      /\ (operator = "" \/ o.operator = operator \/ o.operator = "")
                      /\ <<scope, scope_id>> \in o.scopes}
    IN  IF offers = {} THEN {}
        ELSE {CHOOSE o \in offers : \A x \in offers : o.id <= x.id}

\* int(price * 100); Null when there is no price row.
operator_price_cents(tariff_id, operator) ==
    LET prices == {p \in OperatorPrices : p.tariff_id = tariff_id
                      /\ (operator = "" \/ p.operator = operator)}
    IN  IF prices = {} THEN Null
        ELSE (CHOOSE p \in prices : \A o \in prices : p.price_mills <= o.price_mills).price_mills
             \div 10

\* Null stands for raise ValueError("No operator price available for tariff").
resolve_unit_price_cents(scope, scope_id, ta, at_ts) ==
    LET off == offer_for(scope, scope_id, ta.tariff_id, ta.operator, at_ts)
    IN  IF off # {}
        THEN LET o == CHOOSE o \in off : TRUE
                 b == operator_price_cents(ta.tariff_id,
                                           IF o.operator # "" THEN o.operator ELSE ta.operator)
             IN  IF o.unit_price_cents # Null THEN o.unit_price_cents
                 ELSE IF b = Null THEN Null
                 ELSE PyRound(b * (100 - OrZero(o.discount_percent)), 100)
        ELSE IF ta.price_override_cents # Null THEN ta.price_override_cents
        ELSE LET b == operator_price_cents(ta.tariff_id, ta.operator)
             IN  IF b = Null THEN Null
                 ELSE IF OrZero(ta.discount_percent) # 0
                 THEN PyRound(b * (100 - ta.discount_percent), 100)
                 ELSE b

RECURSIVE Sorted(_)
Sorted(points) ==
    IF points = {} THEN <<>>
    ELSE LET x == CHOOSE x \in points : \A y \in points : x <= y
         IN  <<x>> \o Sorted(points \ {x})

\* Q(col=None) is the test col IS NULL.
ScopeArg(scope, scope_id, level) == IF scope = level THEN scope_id ELSE Null

\* Boundaries that ignore every tariff and VAT row.
PeriodOnly(scope, scope_id, start, end) == <<start, end>>

slice_boundaries(scope, scope_id, start, end) ==
    LET tas == {t \in tariffs :
                   \/ t.site_id = ScopeArg(scope, scope_id, "site")
                   \/ t.od_pod_id = ScopeArg(scope, scope_id, "od_pod")
                   \/ t.pod_id = ScopeArg(scope, scope_id, "pod")}
        vs == {v \in vats : v.valid_from < end}
        inside(x) == x # Null /\ start < x /\ x < end
    IN  Sorted({start, end}
               \cup {t.valid_from : t \in {x \in tas : inside(x.valid_from)}}
               \cup {t.valid_to : t \in {x \in tas : inside(x.valid_to)}}
               \cup {v.valid_from : v \in {x \in vs : inside(x.valid_from)}}
               \cup {v.valid_to : v \in {x \in vs : inside(x.valid_to)}})

slice_contains_estimated(cn, mn, s, e) ==
    \E c \in cn : /\ c.meter_no = mn /\ c.timestamp >= s /\ c.timestamp < e
                  /\ (c.estimated \/ c.interpolated)

\* VAT of a line with the fraction dropped.
LineVatTruncated(amount, vat_rate) == Truncate(amount * vat_rate, 100)

\* round(amount * vat_rate / 100)
LineVatAmount(amount, vat_rate) == PyRound(amount * vat_rate, 100)

\* The slices before the first one without a tariff assignment.
SlicesUntilGap(scope, scope_id, cuts, operator) ==
    {i \in 1..(Len(cuts) - 1) :
        \A j \in 1..i : tariff_assignment_at(scope, scope_id, cuts[j], operator) # {}}

\* The slices of a bill that have a tariff assignment (if not ta: continue).
PricedSlices(scope, scope_id, cuts, operator) ==
    {i \in 1..(Len(cuts) - 1) : tariff_assignment_at(scope, scope_id, cuts[i], operator) # {}}

\* The BillingLine rows written for the given slices: one per priced slice
\* and meter whose quantity is positive.
BillLines(scope, scope_id, cuts, operator, slices) ==
    LET slice(i) ==
            LET ta == CHOOSE t \in tariff_assignment_at(scope, scope_id, cuts[i], operator) : TRUE
                unit_price_c == resolve_unit_price_cents(scope, scope_id, ta, cuts[i])
                vat_rate == resolve_vat_rate_at(cuts[i])
            IN  {[meter_no |-> MeterNo(m),
                  tariff_code |-> TariffCode(ta.tariff_id),
                  quantity |-> energy_by_band(canon, MeterNo(m), cuts[i], cuts[i + 1]),
                  unit_price_cents |-> unit_price_c,
                  amount_cents |-> energy_by_band(canon, MeterNo(m), cuts[i], cuts[i + 1])
                                      * unit_price_c,
                  vat_rate_percent |-> vat_rate,
                  vat_amount_cents |->
                      LineVatAmount(energy_by_band(canon, MeterNo(m), cuts[i], cuts[i + 1])
                                       * unit_price_c, vat_rate),
                  contains_estimated |->
                      slice_contains_estimated(canon, MeterNo(m), cuts[i], cuts[i + 1]),
                  period_start |-> cuts[i], period_end |-> cuts[i + 1],
                  channel |-> "active_import", is_true_up |-> FALSE] :
                 m \in {x \in meters_in_scope(scope, scope_id) :
                           energy_by_band(canon, MeterNo(x), cuts[i], cuts[i + 1]) > 0}}
    IN  UNION {slice(i) : i \in PricedSlices(scope, scope_id, cuts, operator) \cap slices}

RECURSIVE SumAmount(_)
SumAmount(lines) ==
    IF lines = {} THEN 0
    ELSE LET l == CHOOSE l \in lines : TRUE
         IN  l.amount_cents + SumAmount(lines \ {l})

RECURSIVE SumVat(_)
SumVat(lines) ==
    IF lines = {} THEN 0
    ELSE LET l == CHOOSE l \in lines : TRUE
         IN  l.vat_amount_cents + SumVat(lines \ {l})

\* The priced slices whose unit price cannot be resolved (ValueError).
UnpricedSlices(scope, scope_id, cuts, operator) ==
    {i \in PricedSlices(scope, scope_id, cuts, operator) :
        \E ta \in tariff_assignment_at(scope, scope_id, cuts[i], operator) :
            resolve_unit_price_cents(scope, scope_id, ta, cuts[i]) = Null}

\* The exception create_bill_for_scope leaves with, "" when it returns.
BillRaises(scope, scope_id, period_start, period_end, operator) ==
    IF ~(period_start < period_end) THEN "Invalid period"
    ELSE IF meters_in_scope(scope, scope_id) = {}
    THEN "No meters in scope for the requested period"
    ELSE IF UnpricedSlices(scope, scope_id,
                           slice_boundaries(scope, scope_id, period_start, period_end),
                           operator) # {}
    THEN "No operator price available for tariff"
    ELSE ""

\* A store that keeps what a failed block wrote.
AutoCommit(before, inside, raised) == inside

\* async with in_transaction(): the writes of the block are committed when it
\* is left normally and rolled back when it is left by an exception.
InTransaction(before, inside, raised) == IF raised THEN before ELSE inside

create_bill_for_scope(customer_id, scope, scope_id, period_start, period_end, operator) ==
    LET err == BillRaises(scope, scope_id, period_start, period_end, operator)
        cuts == slice_boundaries(scope, scope_id, period_start, period_end)
        unpriced == UnpricedSlices(scope, scope_id, cuts, operator)
        \* the slices the loop passes before it ends or raises
        done == {i \in 1..(Len(cuts) - 1) : \A u \in unpriced : i < u}
        lines == BillLines(scope, scope_id, cuts, operator, done)
        any_est == \E i \in PricedSlices(scope, scope_id, cuts, operator) :
                       \E m \in meters_in_scope(scope, scope_id) :
                           slice_contains_estimated(canon, MeterNo(m), cuts[i], cuts[i + 1])
        created == [id |-> Cardinality(docs) + 1, doc_type |-> "INVOICE",
                    customer_id |-> customer_id,
                    period_start |-> period_start, period_end |-> period_end,
                    status |-> "DRAFT",
                    subtotal_cents |-> 0, vat_cents |-> 0, total_cents |-> 0,
                    contains_estimated |-> FALSE, lines |-> lines]
        doc == IF unpriced # {} THEN created
               ELSE [created EXCEPT !.subtotal_cents = SumAmount(lines),
                                    !.vat_cents = SumVat(lines),
                                    !.total_cents = SumAmount(lines) + SumVat(lines),
                                    !.contains_estimated = any_est]
    IN  /\ IF err \in {"Invalid period", "No meters in scope for the requested period"}
           THEN /\ out' = [fn |-> "create_bill_for_scope", raised |-> err,
                           scope |-> scope, scope_id |-> scope_id,
                           period_start |-> period_start, period_end |-> period_end,
                           doc_id |-> 0, written |-> {}]
                /\ UNCHANGED docs
           ELSE /\ err # "" \/ Cardinality(docs) < MaxDocs
                /\ docs' = InTransaction(docs, docs \cup {doc}, err # "")
                /\ out' = [fn |-> "create_bill_for_scope", raised |-> err,
                           scope |-> scope, scope_id |-> scope_id,
                           period_start |-> period_start, period_end |-> period_end,
                           doc_id |-> IF err = "" THEN doc.id ELSE 0,
                           written |-> lines]
        /\ UNCHANGED <<consVars, scopeVars, sched, concVars, tariffs, vats, exch>>

(***************************************************************************)
(* Overlapping consolidation tasks.  Scheduler.run_forever creates a task  *)
(* per due job without waiting for the previous one, so two runs of one    *)
(* consolidation can be in flight.  A run yields to the other at every     *)
(* await: after its candidate query, then inside in_transaction() between  *)
(* the key lookup and the write of each group.  The store is the SQLite    *)
(* database of main.py: one connection whose lock every query and every    *)
(* in_transaction() takes.                                                 *)
(***************************************************************************)
RunIds == {1, 2}
ConcWindow == <<0, 30>>

IdleRun(kind) ==
    [pc |-> "idle", kind |-> kind, cand |-> {}, rem |-> {}, found |-> {},
     snap |-> {}, overlap |-> FALSE]

\* A store whose transactions take no lock.
Unlocked == TRUE

ConnectionFree == lock = 0

RunCandidates(kind) ==
    IF kind = "counters"
    THEN Candidates(raw, ConcWindow[1], ConcWindow[2], {})
    ELSE ServiceCandidates(raw, ConcWindow[1], ConcWindow[2], {})

RunGroupKeys(kind, cand) ==
    IF kind = "counters" THEN GroupKeys(cand) ELSE ServiceGroupKeys(cand)

RunValues(kind, cand, k) ==
    IF kind = "counters"
    THEN CounterDefaults(BestCounterRow(GroupRows(cand, k)))
    ELSE ServiceValues(choose_best_raw(ServiceGroupRows(cand, k)), k[1], k[2])

\* One whole run, alone.
SingleRun(kind, cn) ==
    IF kind = "counters"
    THEN CountersResult(cn, raw, ConcWindow[1], ConcWindow[2], {})
    ELSE ServicesResult(cn, raw, ConcWindow[1], ConcWindow[2], {})

\* candidates = await q.values(...) / raws = await MeterDataRaw.filter(q).all()
RunQuery(p) ==
    /\ runs[p].pc = "idle"
    /\ ConnectionFree
    /\ runs' = [runs EXCEPT ![p].pc = "begin",
                            ![p].cand = RunCandidates(runs[p].kind),
                            ![p].overlap = \E q \in RunIds \ {p} :
                                              runs[q].pc \notin {"idle", "done"}]
    /\ UNCHANGED <<consVars, scopeVars, sched, lock, base, billVars, out>>

\* async with in_transaction():
RunBegin(p) ==
    /\ runs[p].pc = "begin"
    /\ ConnectionFree
    /\ lock' = p
    /\ LET keys == RunGroupKeys(runs[p].kind, runs[p].cand)
       IN  runs' = [runs EXCEPT ![p].pc = IF keys = {} THEN "commit" ELSE "lookup",
                               ![p].rem = keys, ![p].snap = canon]
    /\ UNCHANGED <<consVars, scopeVars, sched, base, billVars, out>>

\* get_or_none(meter_no, timestamp) / filter(meter_no, timestamp).first();
\* get_or_none raises when the key repeats and the transaction rolls back.
RunLookup(p) ==
    /\ runs[p].pc = "lookup"
    /\ LET k == CHOOSE k \in runs[p].rem : TRUE
           found == CanonKeyed(canon, k[1], k[2])
       IN  IF runs[p].kind = "counters" /\ Cardinality(found) > 1
           THEN /\ canon' = runs[p].snap
                /\ lock' = 0
                /\ runs' = [runs EXCEPT ![p].pc = "done"]
           ELSE /\ runs' = [runs EXCEPT ![p].pc = "write", ![p].found = found]
                /\ UNCHANGED <<canon, lock, billVars, out>>
    /\ UNCHANGED <<raw, now, scopeVars, sched, base, billVars, out>>

\* the UPDATE of the row that was found, or the INSERT of a new one
RunWrite(p) ==
    /\ runs[p].pc = "write"
    /\ LET k == CHOOSE k \in runs[p].rem : TRUE
           d == RunValues(runs[p].kind, runs[p].cand, k)
           found == runs[p].found
           rest == runs[p].rem \ {k}
       IN  /\ canon' =
                  IF found # {}
                  THEN LET old == CHOOSE c \in found : \A o \in found : c.id <= o.id
                           cur == {c \in CanonKeyed(canon, k[1], k[2]) : c.id = old.id}
                       IN  (canon \ cur) \cup
                           {[d EXCEPT !.id = c.id,
                                      !.interpolated = IF runs[p].kind = "counters"
                                                       THEN c.interpolated
                                                       ELSE d.interpolated] : c \in cur}
                  ELSE canon \cup {[d EXCEPT !.id = NewCanonId(canon, k[1], k[2])]}
           /\ runs' = [runs EXCEPT ![p].pc = IF rest = {} THEN "commit" ELSE "lookup",
                                   ![p].rem = rest, ![p].found = {}]
    /\ UNCHANGED <<raw, now, scopeVars, sched, lock, base, billVars, out>>

\* leaving in_transaction(): commit
RunCommit(p) ==
    /\ runs[p].pc = "commit"
    /\ lock' = 0
    /\ runs' = [runs EXCEPT ![p].pc = "done"]
    /\ UNCHANGED <<consVars, scopeVars, sched, base, billVars, out>>

(***************************************************************************)
(* bill_interpreter/service.py, _process_pdf: one measurement row of a     *)
(* supplier bill is backfilled as a raw row and as a canonical row.        *)
(***************************************************************************)
BillRawPayload(mn, ts, channel, energy) ==
    [id |-> 0, meter_no |-> mn, timestamp |-> ts, bucket_ts |-> Null,
     active_import |-> (IF channel = "active_import" THEN energy ELSE Null),
     constant |-> Null, source |-> "SUPPLIER_BILL",
     quality |-> "GOOD", quality_code |-> Null,
     estimated |-> FALSE, interpolated |-> FALSE, reset_detected |-> FALSE,
     received_at |-> 0]

BillCanonValues(mn, ts, channel, energy) ==
    [id |-> 0, meter_no |-> mn, timestamp |-> ts,
     active_import |-> (IF channel = "active_import" THEN energy ELSE 0),
     constant |-> Null, chosen_raw_id |-> Null, chosen_source_code |-> "SUPPLIER_BILL",
     quality |-> "GOOD", estimated |-> FALSE, interpolated |-> FALSE,
     reset_detected |-> FALSE]

\* MeterDataRaw.create(**payload); MeterData.create(**md)
ProcessPdfMeasurement(mn, ts, channel, energy) ==
    LET p == BillRawPayload(mn, ts, channel, energy)
        md == BillCanonValues(mn, ts, channel, energy)
    IN  /\ Cardinality(raw) < MaxRaw
        /\ raw' = raw \cup {[p EXCEPT !.id = NewRawId(raw, p), !.received_at = now]}
        /\ canon' = canon \cup {[md EXCEPT !.id = NewCanonId(canon, mn, ts)]}
        /\ UNCHANGED <<now, scopeVars, sched, concVars, billVars, out>>

Tick ==
    /\ now + 1 \in Clock
    /\ now' = now + 1
    /\ UNCHANGED <<raw, canon, scopeVars, sched, concVars, billVars, out>>

(***************************************************************************)
(* scope_utils.py, meter_segments_for_scope_during: the assignment windows *)
(* of a unit clipped to [start, end) and split at meter replacements.      *)
(* A segment is [meter_id, meter_no, from, to, handover_from_prev]; a      *)
(* missing meter_no is "" and a missing handover value is Null.            *)
(***************************************************************************)
\* An overlap test that also counts windows that only touch.
OverlapsClosed(a_start, a_end, b_start, b_end) ==
    /\ a_start <= b_end
    /\ (a_end = Null \/ a_end >= b_start)

\* Half-open overlap of [a_start, a_end) and [b_start, b_end); an open
\* a_end is +infinity.
Overlaps(a_start, a_end, b_start, b_end) ==
    /\ a_start < b_end
    /\ (a_end = Null \/ a_end > b_start)

\* Time-window resolution: the meters of the assignment rows that overlap
\* [start, end); Meter.filter(id__in=set(ids)) returns each meter once.
meters_in_scope_during(scope, scope_id, start, end) ==
    {r.meter_id : r \in {a \in AssignmentsForScope(scope, scope_id) :
                            Overlaps(a.valid_from, a.valid_to, start, end)}}

\* A caller of the point-in-time resolver; no path of it raises.
CallMetersAt(scope, scope_id, at) ==
    /\ out' = [fn |-> "meters_in_scope_at", scope |-> scope, scope_id |-> scope_id,
               start |-> at, end |-> at, raised |-> "",
               meters |-> MetersInScopeAt(scope, scope_id, at)]
    /\ UNCHANGED <<consVars, scopeVars, sched, concVars, billVars>>

CallMetersDuring(scope, scope_id, start, end) ==
    /\ out' = [fn |-> "meters_in_scope_during", scope |-> scope, scope_id |-> scope_id,
               start |-> start, end |-> end, raised |-> "",
               meters |-> meters_in_scope_during(scope, scope_id, start, end)]
    /\ UNCHANGED <<consVars, scopeVars, sched, concVars, billVars>>

\* The rows of a query in the order the database returns them (by id).
RECURSIVE RowsById(_)
RowsById(rows) ==
    IF rows = {} THEN <<>>
    ELSE LET r == CHOOSE r \in rows : \A q \in rows : r.id <= q.id
         IN  <<r>> \o RowsById(rows \ {r})

RECURSIVE BaseSegmentsOf(_, _, _)
BaseSegmentsOf(rows, start, end) ==
    IF rows = <<>> THEN <<>>
    ELSE LET r == Head(rows)
             rest == BaseSegmentsOf(Tail(rows), start, end)
         IN  IF ~Overlaps(r.valid_from, r.valid_to, start, end) THEN rest
             ELSE <<[meter_id |-> r.meter_id,
                     seg_start |-> Max2(r.valid_from, start),
                     seg_end |-> IF r.valid_to = Null \/ r.valid_to > end
                                 THEN end ELSE r.valid_to]>> \o rest

Segment(mid, mno, from, to, handover) ==
    [meter_id |-> mid, meter_no |-> mno, from |-> from, to |-> to,
     handover_from_prev |-> handover]

\* sorted(rep_by_old.get(mid, []), key=replacement_ts), a stable sort of the
\* replacements the window query returned.
RECURSIVE RepsSorted(_)
RepsSorted(rows) ==
    IF rows = {} THEN <<>>
    ELSE LET r == CHOOSE r \in rows : \A q \in rows :
                      \/ r.replacement_ts < q.replacement_ts
                      \/ r.replacement_ts = q.replacement_ts /\ r.id <= q.id
         IN  <<r>> \o RepsSorted(rows \ {r})

RepsHere(mid, start, end) ==
    RepsSorted({r \in reps : /\ r.replacement_ts >= start
                             /\ r.replacement_ts < end
                             /\ r.old_meter_id = mid})

\* A handover value that is never carried over.
NoHandover(rep) == Null

HandoverFromPrev(rep) == rep.handover_read_active_import

\* The loop over the replacements of one base segment: a replacement outside
\* (cursor, seg_end) is skipped, any other closes the old meter's segment at
\* its time and opens the new meter's segment up to seg_end.
RECURSIVE SplitByReps(_, _, _, _, _)
SplitByReps(mid, cursor, seg_end, rs, known) ==
    IF rs = <<>> THEN <<>>
    ELSE LET rep == Head(rs)
             ts == rep.replacement_ts
             new_mid == rep.new_meter_id
         IN  IF ts <= cursor \/ ts >= seg_end
             THEN SplitByReps(mid, cursor, seg_end, Tail(rs), known)
             ELSE <<Segment(mid, MeterNo(mid), cursor, ts, Null),
                    Segment(new_mid, IF new_mid \in known THEN MeterNo(new_mid) ELSE "",
                            ts, seg_end, HandoverFromPrev(rep))>>
                  \o SplitByReps(mid, ts, seg_end, Tail(rs), known)

RECURSIVE CursorAfter(_, _, _)
CursorAfter(cursor, seg_end, rs) ==
    IF rs = <<>> THEN cursor
    ELSE LET ts == Head(rs).replacement_ts
         IN  IF ts <= cursor \/ ts >= seg_end
             THEN CursorAfter(cursor, seg_end, Tail(rs))
             ELSE CursorAfter(ts, seg_end, Tail(rs))

SegmentsOfBase(b, start, end, known, apply_replacements) ==
    LET whole == <<Segment(b.meter_id, MeterNo(b.meter_id), b.seg_start, b.seg_end, Null)>>
        reps_here == RepsHere(b.meter_id, start, end)
        cursor == CursorAfter(b.seg_start, b.seg_end, reps_here)
    IN  IF ~apply_replacements THEN whole
        ELSE IF reps_here = <<>> THEN whole
        ELSE SplitByReps(b.meter_id, b.seg_start, b.seg_end, reps_here, known)
             \o (IF cursor < b.seg_end /\ reps_here = <<>>
                 THEN <<Segment(b.meter_id, MeterNo(b.meter_id), cursor, b.seg_end, Null)>>
                 ELSE <<>>)

RECURSIVE SegmentsOfAll(_, _, _, _, _)
SegmentsOfAll(bases, start, end, known, apply_replacements) ==
    IF bases = <<>> THEN <<>>
    ELSE SegmentsOfBase(Head(bases), start, end, known, apply_replacements)
         \o SegmentsOfAll(Tail(bases), start, end, known, apply_replacements)

\* list.sort(key=(from, meter_id)): a stable insertion of each segment after
\* the segments whose key is not greater.
RECURSIVE SortSegments(_)
SortSegments(segs) ==
    IF segs = <<>> THEN <<>>
    ELSE LET n == Len(segs)
             last == segs[n]
             front == SortSegments(SubSeq(segs, 1, n - 1))
             keep == {i \in 1..Len(front) :
                         ~TupleLess(<<last.from, last.meter_id>>,
                                    <<front[i].from, front[i].meter_id>>)}
             k == IF \E i \in 1..Len(front) : i \notin keep
                  THEN (CHOOSE i \in 1..Len(front) :
                            i \notin keep /\ \A j \in 1..(i - 1) : j \in keep) - 1
                  ELSE Len(front)
         IN  SubSeq(front, 1, k) \o <<last>> \o SubSeq(front, k + 1, Len(front))

meter_segments_for_scope_during(scope, scope_id, start, end, apply_replacements) ==
    LET bases == BaseSegmentsOf(RowsById(AssignmentsForScope(scope, scope_id)), start, end)
        known == {bases[i].meter_id : i \in 1..Len(bases)}
    IN  IF bases = <<>> THEN <<>>
        ELSE SortSegments(SegmentsOfAll(bases, start, end, known, apply_replacements))

\* A caller of the segment resolver; the list it gets is kept in out.
CallSegments(scope, scope_id, start, end, apply_replacements) ==
    /\ out' = [fn |-> "meter_segments_for_scope_during", scope |-> scope,
               scope_id |-> scope_id, start |-> start, end |-> end,
               apply_replacements |-> apply_replacements, raised |-> "",
               segments |-> meter_segments_for_scope_during(scope, scope_id, start, end,
                                                            apply_replacements)]
    /\ UNCHANGED <<consVars, scopeVars, sched, concVars, billVars>>

(***************************************************************************)
(* Export to the partner: msd_exporter.export_document, the export job and *)
(* the manual export of main.py and routers/integration_admin.py, and      *)
(* msd_poller.poll_outcomes.  A document here is [id, status, trail]:      *)
(* trail lists, in order, every status value the row has held.             *)
(***************************************************************************)
MaxTrail == 5

\* doc.status = value; await doc.save()
SetStatus(d, value) ==
    IF d.status = value THEN d
    ELSE [d EXCEPT !.status = value, !.trail = Append(d.trail, value)]

\* _job_export_ready: every READY document is exported (export_document
\* uploads both files to Source and saves the row with status EXPORTED,
\* whatever its status was); when the gateway raises, the document keeps its
\* status and the error is recorded.
JobExportReady(gateway_ok) ==
    LET ready == {d \in docs : d.status = "READY"}
    IN  /\ ready # {}
        /\ \A d \in ready : Len(d.trail) < MaxTrail
        /\ IF gateway_ok
           THEN /\ docs' = (docs \ ready) \cup {SetStatus(d, "EXPORTED") : d \in ready}
                /\ exch' = [exch EXCEPT !.source = @ \cup {d.id : d \in ready}]
           ELSE UNCHANGED <<docs, exch>>
        /\ UNCHANGED <<consVars, scopeVars, sched, concVars, tariffs, vats, out>>

\* POST /integration/msd/export with a document id.
ManualExport(document_id) ==
    \E d \in docs :
        /\ d.id = document_id
        /\ Len(d.trail) < MaxTrail
        /\ docs' = (docs \ {d}) \cup {SetStatus(d, "EXPORTED")}
        /\ exch' = [exch EXCEPT !.source = @ \cup {d.id}]
        /\ UNCHANGED <<consVars, scopeVars, sched, concVars, tariffs, vats, out>>

\* The partner moves an uploaded file of a document to Processed or to Error
\* (the lines file and the PDF are moved separately), or drops the invoice
\* number file of a document whose files it processed.
PartnerMoves(document_id, dir) ==
    /\ document_id \in exch.source
    /\ dir = "numbers" => document_id \in exch.processed
    /\ exch' = [exch EXCEPT ![dir] = @ \cup {document_id}]
    /\ UNCHANGED <<consVars, scopeVars, sched, concVars, tariffs, vats, docs, out>>

\* The three status loops of poll_outcomes (files_ok, files_err, invoice
\* numbers), applied to each document in that order.
poll_outcomes ==
    LET files_ok(d) ==
            IF d.id \in exch.processed /\ d.status \in {"EXPORTED", "READY"}
            THEN SetStatus(d, "FILESOK") ELSE d
        files_err(d) ==
            IF d.id \in exch.error /\ d.status \in {"READY", "EXPORTED", "FILESOK"}
            THEN SetStatus(d, "ACKERR") ELSE d
        numbers(d) ==
            IF d.id \in exch.numbers /\ d.status # "ACKERR"
            THEN SetStatus(d, "ACKOK") ELSE d
    IN
    /\ docs' = {numbers(files_err(files_ok(d))) : d \in docs}
    /\ UNCHANGED <<consVars, scopeVars, sched, concVars, tariffs, vats, exch, out>>

(***************************************************************************)
(* Ingestion, allocation and consolidation over one store.                 *)
(***************************************************************************)
\* pod 1: meter 1 from 0 on
ConsAssignments ==
    {[scope |-> "pod", scope_id |-> 1, meter_id |-> 1, valid_from |-> 0, valid_to |-> Null],
     [scope |-> "pod", scope_id |-> 1, meter_id |-> 2, valid_from |-> 15, valid_to |-> Null]}

Windows == {<<0, 15>>, <<0, 30>>, <<15, 30>>}
MeterFilters == {{}, {"M1"}}

Init ==
    /\ raw = {}
    /\ canon = {}
    /\ now = 0
    /\ asg = ConsAssignments
    /\ reps = {}
    /\ lock = 0
    /\ runs = [p \in RunIds |-> IdleRun("counters")]
    /\ base = {}
    /\ tariffs = {}
    /\ vats = {}
    /\ docs = {}
    /\ exch = NoFiles
    /\ sched = NoSched
    /\ out = NoCall

DoIngestTV ==
    \E mn \in IngestMeterNos, ts \in Buckets, ea \in CounterValues, qin \in {"absent", "none"} :
        IngestTV(mn, ts, ea, qin)

DoIngestBuckets ==
    \E mn \in IngestMeterNos, ts \in Buckets, ea \in CounterValues, st \in ResetStepsIn :
        IngestBuckets(mn, ts, ea, st)

DoAllocate == \E w \in Windows : Allocate("pod", 1, w[1], w[2])

DoConsolidateCounters ==
    \E w \in Windows, mns \in MeterFilters : ConsolidateCounters(w[1], w[2], mns)

DoConsolidateServices ==
    \E w \in Windows, mns \in MeterFilters : consolidate_raw_to_canonical(w[1], w[2], mns)

DoProcessPdf ==
    \E mn \in IngestMeterNos, ch \in {"active_import", "reactive_import"} :
        ProcessPdfMeasurement(mn, 29, ch, 50)

Next ==
    \/ DoIngestTV
    \/ DoIngestBuckets
    \/ DoAllocate
    \/ DoConsolidateCounters
    \/ DoConsolidateServices
    \/ Tick

Spec == Init /\ [][Next]_vars

\* Two tasks of one consolidation over the same window and raw rows.
Stored(payload, id, clock) == [payload EXCEPT !.id = id, !.received_at = clock]

ConcRawRows ==
    {Stored(TVPayload("M1", 0, 100, "absent"), 1, 0),
     Stored(EstimatePayload("M1", 0, EstimateEnergy), 1, 0),
     Stored(BucketPayload("M1", 0, 100, MaxResetSteps), 1, 1),
     Stored(BucketPayload("M1", BUCKET_MINUTES, 100, 0), 1, 1)}

InitConc ==
    /\ raw \in SUBSET ConcRawRows
    /\ \E kind \in {"counters", "services"}, old \in SUBSET ConcRawRows :
          /\ old \subseteq raw
          /\ runs = [p \in RunIds |-> IdleRun(kind)]
          /\ base = IF kind = "counters"
                    THEN CountersResult({}, old, ConcWindow[1], ConcWindow[2], {})
                    ELSE ServicesResult({}, old, ConcWindow[1], ConcWindow[2], {})
    /\ canon = base
    /\ now = 1
    /\ asg = ConsAssignments
    /\ reps = {}
    /\ lock = 0
    /\ tariffs = {}
    /\ vats = {}
    /\ docs = {}
    /\ exch = NoFiles
    /\ sched = NoSched
    /\ out = NoCall

NextConc ==
    \E p \in RunIds :
        \/ RunQuery(p)
        \/ RunBegin(p)
        \/ RunLookup(p)
        \/ RunWrite(p)
        \/ RunCommit(p)

SpecConc == InitConc /\ [][NextConc]_vars

\* The delta engine over canonical series of one meter.
MaxReadings == 3
DeltaConstants == {Null, 0, 2}
DeltaWindows == {<<0, 30>>, <<0, 60>>, <<15, 75>>}

CanonRow(mn, ts, v, k) ==
    [id |-> 1, meter_no |-> mn, timestamp |-> ts, active_import |-> v,
     constant |-> k, chosen_raw_id |-> Null, chosen_source_code |-> "SDI_PROC_TV",
     quality |-> "GOOD", estimated |-> FALSE, interpolated |-> FALSE,
     reset_detected |-> FALSE]

DeltaSeries ==
    UNION {{{CanonRow("M1", t, f[t][1], f[t][2]) : t \in T} :
               f \in [T -> {90, 100, 115} \X DeltaConstants]} :
           T \in {S \in SUBSET {0, 15, 30, 60} : Cardinality(S) <= MaxReadings}}

InitDelta ==
    /\ canon \in DeltaSeries
    /\ raw = {}
    /\ now = 0
    /\ asg = {}
    /\ reps = {}
    /\ lock = 0
    /\ runs = [p \in RunIds |-> IdleRun("counters")]
    /\ base = {}
    /\ tariffs = {}
    /\ vats = {}
    /\ docs = {}
    /\ exch = NoFiles
    /\ sched = NoSched
    /\ out = NoCall

NextDelta ==
    \/ \E w \in DeltaWindows : CallEnergyByBand("M1", w[1], w[2])
    \/ \E w \in DeltaWindows : CallEnergiesForMeter("M1", w[1], w[2])
    \/ \E w \in DeltaWindows, k \in DeltaConstants : CallFetchEnergyDb("M1", k, w[1], w[2])

SpecDelta == InitDelta /\ [][NextDelta]_vars

\* Billing of a unit over canonical series of its meter.
BillReading(t) == 100 + (t \div 4)
\* The reading of 00:00 is an estimated one.
BillSeries ==
    {{[CanonRow("M1", t, BillReading(t), 1) EXCEPT !.estimated = (t = 0)] : t \in T} :
        T \in {{0, 60}, {30, 45}, {0, 15, 30, 45}}}

BillAssignments ==
    {[scope |-> "pod", scope_id |-> 1, meter_id |-> 1, valid_from |-> 0, valid_to |-> Null],
     [scope |-> "site", scope_id |-> 1, meter_id |-> 1, valid_from |-> 0, valid_to |-> Null],
     [scope |-> "od_pod", scope_id |-> 1, meter_id |-> 1, valid_from |-> 0, valid_to |-> 30]}

TariffRow(id, site_id, od_pod_id, pod_id, tariff_id, operator, valid_from, valid_to, price_override_cents, discount_percent) ==
    [id |-> id, site_id |-> site_id, od_pod_id |-> od_pod_id, pod_id |-> pod_id,
     tariff_id |-> tariff_id, operator |-> operator,
     valid_from |-> valid_from, valid_to |-> valid_to, is_primary |-> TRUE,
     price_override_cents |-> price_override_cents, discount_percent |-> discount_percent]

TariffRows ==
    {TariffRow(1, Null, Null, 1, 1, "", 0, Null, 50, Null),
     TariffRow(2, Null, Null, 1, 2, "", 30, Null, 60, Null),
     TariffRow(3, Null, 9, Null, 1, "", 15, 45, 50, Null),
     TariffRow(4, 1, Null, Null, 2, "OPA", 0, Null, Null, 50),
     TariffRow(5, Null, Null, 1, 1, "", 30, Null, Null, Null)}

TariffConfigs ==
    {{}, {t \in TariffRows : t.id = 1}, {t \in TariffRows : t.id \in {1, 2}},
     {t \in TariffRows : t.id \in {1, 3}}, {t \in TariffRows : t.id = 4}, {t \in TariffRows : t.id \in {1, 5}},
     {t \in TariffRows : t.id = 2},
     {t \in TariffRows : t.id \in 1..4}}

VatRow(id, rate_percent, valid_from, valid_to) ==
    [id |-> id, code |-> "STANDARD", rate_percent |-> rate_percent,
     valid_from |-> valid_from, valid_to |-> valid_to]

VatConfigs ==
    {{}, {VatRow(1, 19, 0, Null)}, {VatRow(1, 19, 0, 30), VatRow(2, 9, 30, Null)}}

\* Pod rows: each POD with its parent distribution-POD and its site.
Pods == {[id |-> 1, od_pod_id |-> 9, site_id |-> 2], [id |-> 2, od_pod_id |-> 9, site_id |-> 2]}

BillScopes == {<<"pod", 1>>, <<"pod", 2>>, <<"site", 1>>, <<"od_pod", 1>>}
BillPeriods == {<<0, 60>>, <<0, 30>>, <<30, 60>>, <<60, 0>>}

InitBill ==
    /\ canon \in BillSeries
    /\ tariffs \in TariffConfigs
    /\ vats \in VatConfigs
    /\ docs = {}
    /\ exch = NoFiles
    /\ sched = NoSched
    /\ out = NoCall
    /\ asg = BillAssignments
    /\ raw = {}
    /\ now = 0
    /\ reps = {}
    /\ lock = 0
    /\ runs = [p \in RunIds |-> IdleRun("counters")]
    /\ base = {}

NextBill ==
    \E sc \in BillScopes, pd \in BillPeriods :
        create_bill_for_scope("C1", sc[1], sc[2], pd[1], pd[2], "")

SpecBill == InitBill /\ [][NextBill]_vars

\* The same store with the supplier-bill interpreter running beside it.
\* The import runs beside the pipeline; the consolidation is also called over
\* a window that does not start on a bucket boundary.
NextImport ==
    \/ Next
    \/ DoProcessPdf
    \/ \E mns \in MeterFilters : consolidate_raw_to_canonical(20, 30, mns)

SpecImport == Init /\ [][NextImport]_vars

(***************************************************************************)
(* Segment resolution over small sets of assignments and replacements.     *)
(***************************************************************************)
MaxReps == 2

AssignmentRow(id, scope, scope_id, meter_id, valid_from, valid_to) ==
    [id |-> id, scope |-> scope, scope_id |-> scope_id, meter_id |-> meter_id,
     valid_from |-> valid_from, valid_to |-> valid_to]

SegAssignmentRows ==
    {AssignmentRow(1, "pod", 1, 1, 0, 60),
     AssignmentRow(2, "pod", 1, 1, 15, Null),
     AssignmentRow(3, "pod", 1, 2, 30, 60),
     AssignmentRow(4, "od_pod", 1, 3, 0, 45)}

ReplacementRow(id, old_meter_id, new_meter_id, replacement_ts, handover) ==
    [id |-> id, old_meter_id |-> old_meter_id, new_meter_id |-> new_meter_id,
     replacement_ts |-> replacement_ts, handover_read_active_import |-> handover]

SegReplacementRows ==
    {ReplacementRow(1, 1, 2, 30, 1000),
     ReplacementRow(2, 1, 2, 0, Null),
     ReplacementRow(3, 1, 3, 45, 7),
     ReplacementRow(4, 2, 3, 45, 5),
     ReplacementRow(5, 3, 2, 15, 0)}

InitSeg ==
    /\ raw = {}
    /\ canon = {}
    /\ now = 0
    /\ asg \in SUBSET SegAssignmentRows
    /\ reps \in {R \in SUBSET SegReplacementRows : Cardinality(R) <= MaxReps}
    /\ lock = 0
    /\ runs = [r \in RunIds |-> IdleRun("counters")]
    /\ base = {}
    /\ tariffs = {}
    /\ vats = {}
    /\ docs = {}
    /\ exch = NoFiles
    /\ sched = NoSched
    /\ out = NoCall

NextSeg ==
    \E sc \in {<<"pod", 1>>, <<"od_pod", 1>>, <<"client", 1>>},
       w \in {<<0, 60>>, <<0, 45>>, <<15, 45>>, <<30, 60>>, <<60, 75>>} :
        \/ \E ap \in BOOLEAN : CallSegments(sc[1], sc[2], w[1], w[2], ap)
        \/ CallMetersDuring(sc[1], sc[2], w[1], w[2])
        \/ CallMetersAt(sc[1], sc[2], w[1])

SpecSeg == InitSeg /\ [][NextSeg]_vars

(***************************************************************************)
(* The export job, manual exports, the partner and the outcome poll over   *)
(* two documents.                                                          *)
(***************************************************************************)
\* A document the billing engine created, which an operator may have marked
\* READY for the export job.
ExportDoc(id, ready) ==
    [id |-> id, status |-> IF ready THEN "READY" ELSE "DRAFT",
     trail |-> IF ready THEN <<"DRAFT", "READY">> ELSE <<"DRAFT">>]

InitExport ==
    /\ raw = {}
    /\ canon = {}
    /\ now = 0
    /\ asg = {}
    /\ reps = {}
    /\ lock = 0
    /\ runs = [p \in RunIds |-> IdleRun("counters")]
    /\ base = {}
    /\ tariffs = {}
    /\ vats = {}
    /\ \E ready \in SUBSET {1, 2} :
          docs = {ExportDoc(id, id \in ready) : id \in {1, 2}}
    /\ exch = NoFiles
    /\ sched = NoSched
    /\ out = NoCall

NextExport ==
    \/ \E ok \in BOOLEAN : JobExportReady(ok)
    \/ \E id \in {1, 2} : ManualExport(id)
    \/ \E id \in {1, 2}, dir \in {"processed", "error", "numbers"} : PartnerMoves(id, dir)
    \/ poll_outcomes

SpecExport == InitExport /\ [][NextExport]_vars

(***************************************************************************)
(* Rate lookups: the tariff assignment and the VAT rate at an instant,     *)
(* over tariff assignments that differ in operator and primary flag and    *)
(* over VAT histories with open and closed windows.                        *)
(***************************************************************************)
CallTariffAssignmentAt(scope, scope_id, at_ts, operator) ==
    /\ out' = [fn |-> "tariff_assignment_at", raised |-> "",
               scope |-> scope, scope_id |-> scope_id, at_ts |-> at_ts,
               operator |-> operator,
               result |-> tariff_assignment_at(scope, scope_id, at_ts, operator)]
    /\ UNCHANGED <<consVars, scopeVars, sched, concVars, billVars>>

CallResolveVatRateAt(at_ts) ==
    /\ out' = [fn |-> "resolve_vat_rate_at", raised |-> "", at_ts |-> at_ts,
               result |-> resolve_vat_rate_at(at_ts)]
    /\ UNCHANGED <<consVars, scopeVars, sched, concVars, billVars>>

InitRates ==
    /\ tariffs \in SUBSET
          {[TariffRow(1, Null, Null, 1, 1, "OPA", 0, Null, 50, Null) EXCEPT !.is_primary = FALSE],
           TariffRow(2, Null, Null, 1, 2, "OPB", 0, Null, 60, Null),
           [TariffRow(3, Null, Null, 1, 2, "OPB", 15, Null, 60, Null) EXCEPT !.is_primary = FALSE],
           TariffRow(4, Null, Null, 1, 1, "", 0, 30, 50, Null),
           TariffRow(5, 1, Null, Null, 2, "OPA", 0, Null, 60, Null)}
    /\ vats \in {{}, {VatRow(1, 19, 0, Null)},
                 {VatRow(1, 19, 0, 30), VatRow(2, 9, 30, Null)},
                 {VatRow(1, 19, 0, Null), VatRow(2, 9, 15, 30)},
                 {VatRow(2, 9, 15, 30)}}
    /\ docs = {}
    /\ exch = NoFiles
    /\ sched = NoSched
    /\ out = NoCall
    /\ raw = {}
    /\ canon = {}
    /\ now = 0
    /\ asg = {}
    /\ reps = {}
    /\ lock = 0
    /\ runs = [p \in RunIds |-> IdleRun("counters")]
    /\ base = {}

NextRates ==
    \/ \E scope \in ScopeTypes, at_ts \in {0, 15, 30, 45}, operator \in {"", "OPA", "OPB"} :
          CallTariffAssignmentAt(scope, 1, at_ts, operator)
    \/ \E at_ts \in {0, 15, 30, 45} : CallResolveVatRateAt(at_ts)

SpecRates == InitRates /\ [][NextRates]_vars

(***************************************************************************)
(* Scheduler.run_forever and the jobs of main.py.  One pass of the loop     *)
(* reads the clock, creates a task for every job that is due and sets its  *)
(* last_run, without an await in between; then it sleeps one time unit.    *)
(* The unit here is the minute, for the sleep and for the intervals alike. *)
(* A task runs beside the loop until it returns or raises.  Loop and tasks *)
(* share one event loop thread: while a task is inside a call that does    *)
(* not await (the Azure file gateway is a synchronous client), time passes *)
(* and nothing else runs.                                                  *)
(***************************************************************************)
MaxRunning == 2
MaxLate == 1

\* One pass, one unit after the previous one (the first pass has no
\* previous one: every last_run is None and every job is due).  Tasks in
\* flight beyond MaxRunning per job are not counted.
run_forever ==
    LET should_run(j) == sched.since[j] = Null \/ sched.since[j] + 1 >= every[j]
    IN  /\ sched' = [sched EXCEPT
              !.since = [j \in Jobs |-> IF should_run(j) THEN 0 ELSE sched.since[j] + 1],
              !.started = {j \in Jobs : should_run(j)},
              !.running = [j \in Jobs |-> IF should_run(j) /\ sched.running[j] < MaxRunning
                                          THEN sched.running[j] + 1 ELSE sched.running[j]]]
        /\ UNCHANGED <<consVars, scopeVars, concVars, billVars, out>>

\* A step of a task of _job_ingest_and_consolidate: the ingestion of the next
\* meter, whose failure is caught and logged, and after the last meter the
\* consolidation, whose failure is caught too; then the task ends.
job_ingest_and_consolidate(ok) ==
    /\ sched.running["ingest"] > 0
    /\ IF sched.todo # <<>>
       THEN LET first == sched.todo = METER_NOS
            IN  sched' = [sched EXCEPT
                    !.todo = Tail(sched.todo),
                    !.ingested = (IF first THEN {} ELSE @)
                                     \cup (IF ok THEN {Head(sched.todo)} ELSE {}),
                    !.failed = (IF first THEN {} ELSE @)
                                   \cup (IF ok THEN {} ELSE {Head(sched.todo)}),
                    !.consolidate = "none"]
       ELSE sched' = [sched EXCEPT
                !.consolidate = IF ok THEN "done" ELSE "failed",
                !.todo = METER_NOS,
                !.running["ingest"] = @ - 1]
    /\ UNCHANGED <<consVars, scopeVars, concVars, billVars, out>>

\* A task of _job_export_ready or _job_poll_outcomes returns, or ends with an
\* exception that nothing awaits.
JobEnds(j, outcome) ==
    /\ sched.running[j] > 0
    /\ sched' = [sched EXCEPT !.running[j] = @ - 1,
                              !.raised = @ \/ outcome = "raised"]
    /\ UNCHANGED <<consVars, scopeVars, concVars, billVars, out>>

\* A task of the export or of the poll job is inside gw.upload_bytes,
\* gw.list_files or gw.download_bytes for one time unit: the clock advances
\* and no pass of the loop takes place.  A job is at most MaxLate overdue.
GatewayCall(j) ==
    /\ sched.running[j] > 0
    /\ \A k \in Jobs : sched.since[k] + 1 < every[k] + MaxLate
    /\ sched' = [sched EXCEPT !.since = [k \in Jobs |-> sched.since[k] + 1]]
    /\ UNCHANGED <<consVars, scopeVars, concVars, billVars, out>>

InitSched ==
    /\ sched = NoSched
    /\ raw = {}
    /\ canon = {}
    /\ now = 0
    /\ asg = {}
    /\ reps = {}
    /\ lock = 0
    /\ runs = [p \in RunIds |-> IdleRun("counters")]
    /\ base = {}
    /\ tariffs = {}
    /\ vats = {}
    /\ docs = {}
    /\ exch = NoFiles
    /\ out = NoCall

NextSched ==
    \/ run_forever
    \/ \E ok \in BOOLEAN : job_ingest_and_consolidate(ok)
    \/ \E j \in {"export", "poll"}, outcome \in {"returned", "raised"} : JobEnds(j, outcome)
    \/ \E j \in {"export", "poll"} : GatewayCall(j)

\* asyncio.sleep(1) returns and the loop makes its next pass.
SpecSched == InitSched /\ [][NextSched]_vars /\ WF_vars(run_forever)

(***************************************************************************)
(* Properties of consolidation.                                            *)
(***************************************************************************)
\* A real observation: not estimated, quality GOOD, from an ingest source.
IsRealGood(r) ==
    ~r.estimated /\ r.quality = "GOOD" /\ r.source # "ESTIMATE_CLIENT_SCOPE"

\* A synthetic row of the allocator.
IsSynthetic(r) ==
    r.estimated /\ r.quality = "ESTIMATED" /\ r.source = "ESTIMATE_CLIENT_SCOPE"

\* The scheduled consolidation has run over [start, end) since raw last
\* changed: running it again changes nothing.
Consolidated(start, end) == CountersResult(canon, raw, start, end, {}) = canon

WindowGroups(start, end) == GroupKeys(Candidates(raw, start, end, {}))
WindowGroupRows(start, end, k) == GroupRows(Candidates(raw, start, end, {}), k)

\* C1 (estimation displacement): once consolidation has run over a window,
\* a group that holds only synthetic ESTIMATED rows has the estimated row
\* as its canonical row, and a group that holds a real GOOD row (whatever
\* its quality_code, reset steps included) has a real row as its canonical
\* row, also when the canonical row was the estimated one before.
C1_EstimationDisplacement ==
    \A w \in Windows :
        Consolidated(w[1], w[2]) =>
            \A k \in WindowGroups(w[1], w[2]) :
                LET rows == WindowGroupRows(w[1], w[2], k)
                    cur == CanonKeyed(canon, k[1], k[2])
                IN  /\ cur # {}
                    /\ (\A r \in rows : IsSynthetic(r)) =>
                           \A c \in cur : c.estimated /\ c.quality = "ESTIMATED"
                    /\ (\E r \in rows : IsRealGood(r)) =>
                           \A c \in cur : ~c.estimated /\ c.quality = "GOOD"

\* C2 (ranking correctness): of a GOOD row of a real source and an
\* ESTIMATED row of the allocator's source in one (meter, bucket) group,
\* both consolidations choose the GOOD row, whatever the received_at values.
C2_RankingCorrectness ==
    \A g \in raw, e \in raw :
        ( /\ IsRealGood(g) /\ IsSynthetic(e)
          /\ g.bucket_ts # Null
          /\ g.meter_no = e.meter_no /\ g.bucket_ts = e.bucket_ts ) =>
            /\ BestCounterRow({g, e}) = g
            /\ choose_best_raw({g, e}) = g

\* C3 (consolidation idempotence): over any window and meter filter, a
\* second run over the same raw rows leaves the canonical rows the first
\* run left, for the scheduled consolidation and for the services one.
C3_ConsolidationIdempotent ==
    \A w \in Windows, f \in MeterFilters :
        LET once == CountersResult(canon, raw, w[1], w[2], f)
            sonce == ServicesResult(canon, raw, w[1], w[2], f)
        IN  /\ CountersResult(once, raw, w[1], w[2], f) = once
            /\ ServicesResult(sonce, raw, w[1], w[2], f) = sonce

\* A consolidated window with a group of two raw rows and a canonical row.
C3_Witness ==
    \E w \in Windows :
        /\ Consolidated(w[1], w[2])
        /\ \E k \in WindowGroups(w[1], w[2]) :
               /\ Cardinality(WindowGroupRows(w[1], w[2], k)) >= 2
               /\ CanonKeyed(canon, k[1], k[2]) # {}

\* C4 (canonical uniqueness): the canonical series holds at most one row
\* per (meter_no, timestamp), supplier-bill imports included.
C4_CanonicalUnique ==
    \A c \in canon : Cardinality(CanonKeyed(canon, c.meter_no, c.timestamp)) = 1

AllRunsDone == \A p \in RunIds : runs[p].pc = "done"

\* C5 (concurrent overlapping consolidation): when two runs of one
\* consolidation over the same window and raw rows have both ended, however
\* their steps interleaved, the canonical series is the one a single run
\* leaves, with exactly one row per (meter, bucket) group.
C5_ConcurrentRedundant ==
    AllRunsDone =>
        LET kind == runs[1].kind
        IN  /\ canon = SingleRun(kind, base)
            /\ \A k \in RunGroupKeys(kind, RunCandidates(kind)) :
                   Cardinality(CanonKeyed(canon, k[1], k[2])) = 1

\* Both runs ended, one of them queried while the other was in flight, and
\* a group of two raw rows was consolidated.
C5_Witness ==
    /\ AllRunsDone
    /\ \E p \in RunIds : runs[p].overlap
    /\ \E k \in RunGroupKeys(runs[1].kind, RunCandidates(runs[1].kind)) :
          /\ Cardinality({r \in raw : r.meter_no = k[1] /\ r.bucket_ts = k[2]}) >= 2
          /\ CanonKeyed(canon, k[1], k[2]) # {}

(***************************************************************************)
(* Properties of the delta engine.                                         *)
(***************************************************************************)
\* C6 (delta non-negativity): whatever the canonical counter values are,
\* falling ones included, the billing aggregate and every reporting bucket
\* the delta engine returns is greater than or equal to zero.
C6_DeltaNonNegative ==
    /\ out.fn = "energy_by_band" => out.qty >= 0
    /\ out.fn \in {"energies_for_meter", "fetch_energy_db_meterdata"} =>
           \A it \in out.items : it.ea_plus >= 0

\* The billing aggregate was taken over rows whose counter falls from one
\* row to the next.
C6_Witness ==
    /\ out.fn = "energy_by_band"
    /\ \E a \in canon, b \in canon :
          /\ out.s <= a.timestamp /\ a.timestamp < b.timestamp /\ b.timestamp < out.e
          /\ b.active_import < a.active_import
          /\ \A c \in canon : ~(a.timestamp < c.timestamp /\ c.timestamp < b.timestamp)

(***************************************************************************)
(* Properties of billing.                                                  *)
(***************************************************************************)
Range(seq) == {seq[i] : i \in 1..Len(seq)}

\* The document the last call of create_bill_for_scope returned.
ReturnedDocs ==
    IF out.fn = "create_bill_for_scope" /\ out.raised = ""
    THEN {d \in docs : d.id = out.doc_id}
    ELSE {}

\* The times at which a tariff assignment the unit can resolve to starts or
\* ends, strictly inside (start, end).
TariffChanges(scope, scope_id, start, end) ==
    LET mine == {t \in tariffs :
                    \/ (scope = "pod" /\ t.pod_id = scope_id)
                    \/ (scope \in {"pod", "od_pod"} /\ t.od_pod_id = scope_id)
                    \/ t.site_id = scope_id}
    IN  {x \in {t.valid_from : t \in mine} \cup {t.valid_to : t \in mine} :
            x # Null /\ start < x /\ x < end}

\* C7 (slice boundary completeness): for every unit and period, every
\* tariff change of the unit strictly inside the period is a slice boundary;
\* every line of a returned document runs from one boundary to the next, so
\* no line spans a tariff change.
C7_SliceBoundaryComplete ==
    /\ \A sc \in BillScopes, pd \in BillPeriods :
           pd[1] < pd[2] =>
               TariffChanges(sc[1], sc[2], pd[1], pd[2])
                   \subseteq Range(slice_boundaries(sc[1], sc[2], pd[1], pd[2]))
    /\ \A d \in ReturnedDocs :
           LET cuts == slice_boundaries(out.scope, out.scope_id, d.period_start, d.period_end)
           IN  \A l \in d.lines :
                   /\ \E i \in 1..(Len(cuts) - 1) :
                          l.period_start = cuts[i] /\ l.period_end = cuts[i + 1]
                   /\ \A T \in TariffChanges(out.scope, out.scope_id,
                                              d.period_start, d.period_end) :
                          ~(l.period_start < T /\ T < l.period_end)

\* A returned document whose period holds a tariff change of the unit and
\* which has a line on each side of it.
C7_Witness ==
    \E d \in ReturnedDocs :
        \E T \in TariffChanges(out.scope, out.scope_id, d.period_start, d.period_end) :
            \E l1 \in d.lines, l2 \in d.lines :
                l1.period_end <= T /\ T <= l2.period_start

ReadingsAt(mn, ts) == {c \in canon : c.meter_no = mn /\ c.timestamp = ts}

\* C9 (worked billing example): with constant 1, readings 100 at the period
\* start and 115 at the period end, unit price 50 and VAT 19 percent, the
\* bill over [start, end) has exactly one line, with quantity 15, amount 750
\* and VAT 143, and a total of 893; in general a priced slice [s, e) with
\* readings exactly at s and at e bills their difference times the constant.
C9_WorkedExample ==
    \A d \in ReturnedDocs :
        LET cuts == slice_boundaries(out.scope, out.scope_id, d.period_start, d.period_end)
        IN  /\ ( /\ out.scope = "pod" /\ out.scope_id = 1
                 /\ cuts = <<0, 60>>
                 /\ canon = {CanonRow("M1", 0, 100, 1), CanonRow("M1", 60, 115, 1)}
                 /\ \E ta \in tariff_assignment_at("pod", 1, 0, "") :
                        resolve_unit_price_cents("pod", 1, ta, 0) = 50
                 /\ resolve_vat_rate_at(0) = 19 ) =>
                   /\ Cardinality(d.lines) = 1
                   /\ \A l \in d.lines : /\ l.quantity = 15
                                          /\ l.amount_cents = 750
                                          /\ l.vat_amount_cents = 143
                   /\ d.total_cents = 893
            /\ \A i \in PricedSlices(out.scope, out.scope_id, cuts, "") :
                   \A m \in meters_in_scope(out.scope, out.scope_id) :
                       \A a \in ReadingsAt(MeterNo(m), cuts[i]),
                          b \in ReadingsAt(MeterNo(m), cuts[i + 1]) :
                           b.active_import > a.active_import =>
                               \E l \in d.lines :
                                   /\ l.meter_no = MeterNo(m)
                                   /\ l.period_start = cuts[i]
                                   /\ l.period_end = cuts[i + 1]
                                   /\ l.quantity = (b.active_import - a.active_import)
                                                      * OrOne(b.constant)

(***************************************************************************)
(* Properties of segment resolution.                                       *)
(***************************************************************************)
SegmentTimes(s) == <<s.meter_id, s.from, s.to, s.handover_from_prev>>

\* The case of C10: the unit has one assignment row, of meter A over [a, b),
\* A has exactly one replacement, at a time strictly inside (a, b), and the
\* resolver was called for the unit over [a, b).
OneReplacementCase(a, r) ==
    /\ out.fn = "meter_segments_for_scope_during"
    /\ out.apply_replacements
    /\ {q \in asg : q.scope = out.scope /\ q.scope_id = out.scope_id} = {a}
    /\ out.scope \in ScopeTypes
    /\ a.valid_to # Null
    /\ out.start = a.valid_from /\ out.end = a.valid_to
    /\ {q \in reps : q.old_meter_id = a.meter_id} = {r}
    /\ a.valid_from < r.replacement_ts /\ r.replacement_ts < a.valid_to

\* C10 (replacement split): when meter A has one assignment window [a, b) to
\* a unit and exactly one replacement A to B at time t with a < t < b and
\* handover value h, the segments of the unit over [a, b) are exactly
\* (A, a, t) with no handover value followed by (B, t, b) with handover h.
C10_ReplacementSplit ==
    \A a \in asg, r \in reps :
        OneReplacementCase(a, r) =>
            /\ Len(out.segments) = 2
            /\ SegmentTimes(out.segments[1]) =
                   <<a.meter_id, a.valid_from, r.replacement_ts, Null>>
            /\ SegmentTimes(out.segments[2]) =
                   <<r.new_meter_id, r.replacement_ts, a.valid_to,
                     r.handover_read_active_import>>

C10_Witness ==
    \E a \in asg, r \in reps :
        /\ OneReplacementCase(a, r)
        /\ r.handover_read_active_import = 1000
        /\ Len(out.segments) = 2

\* C11 (scope overlap): meters_in_scope_during returns exactly the meters with
\* at least one assignment to the unit that has valid_from < end and no
\* valid_to or valid_to > start; an assignment that ended at or before start
\* or begins at or after end brings no meter in.
C11_ScopeOverlap ==
    out.fn = "meters_in_scope_during" =>
        out.meters = {m \in MeterIds : \E a \in asg :
                         /\ a.scope = out.scope /\ a.scope_id = out.scope_id
                         /\ a.meter_id = m
                         /\ a.valid_from < out.end
                         /\ (a.valid_to = Null \/ a.valid_to > out.start)}

C11_Witness ==
    /\ out.fn = "meters_in_scope_during"
    /\ \E a, b \in asg :
          /\ a.scope = out.scope /\ a.scope_id = out.scope_id
          /\ b.scope = out.scope /\ b.scope_id = out.scope_id
          /\ a.valid_to = Null /\ a.valid_from < out.start
          /\ b.valid_to # Null /\ b.valid_to <= out.start
          /\ a.meter_id \in out.meters
          /\ b.meter_id \notin out.meters

\* The meters with an assignment to the unit that overlaps [start, end).
AssignedDuring(scope, scope_id, start, end) ==
    {a.meter_id : a \in {r \in asg : /\ r.scope = scope /\ r.scope_id = scope_id
                                     /\ r.valid_from < end
                                     /\ (r.valid_to = Null \/ r.valid_to > start)}}

\* C12 (meters of the billing period): a bill is only created when some meter
\* has an assignment to the unit that overlaps [period_start, period_end), and
\* every line of the bill is for a meter with such an assignment.
C12_PeriodMeters ==
    \A d \in ReturnedDocs :
        LET during == AssignedDuring(out.scope, out.scope_id, d.period_start, d.period_end)
        IN  /\ during # {}
            /\ \A l \in d.lines : \E m \in during : l.meter_no = MeterNo(m)

\* C13 (fail-fast without partial state): when unit-price resolution raises
\* for a slice of a create_bill_for_scope call, the call raises and the stored
\* documents and lines are what they were before the call, also when lines of
\* earlier slices had been written.
C13_FailFastNoPartialState ==
    [][(out'.fn = "create_bill_for_scope"
        /\ out'.raised = "No operator price available for tariff") => docs' = docs]_vars

C13_Witness ==
    /\ out.fn = "create_bill_for_scope"
    /\ out.raised = "No operator price available for tariff"
    /\ out.written # {}
    /\ docs = {}

\* The slices of the last call at whose start no tariff assignment applies.
UntariffedSlices ==
    LET cuts == slice_boundaries(out.scope, out.scope_id, out.period_start, out.period_end)
    IN  {i \in 1..(Len(cuts) - 1) :
            tariff_assignment_at(out.scope, out.scope_id, cuts[i], "") = {}}

\* C14 (best effort per slice): a slice at whose start no tariff assignment
\* applies gets no line and raises no error, and every other slice of the
\* period that has a tariff and non-zero energy still gets its line.
C14_BestEffortPerSlice ==
    (out.fn = "create_bill_for_scope" /\ out.period_start < out.period_end
        /\ meters_in_scope(out.scope, out.scope_id) # {}) =>
        LET cuts == slice_boundaries(out.scope, out.scope_id, out.period_start, out.period_end)
            tariffed == (1..(Len(cuts) - 1)) \ UntariffedSlices
        IN  /\ out.raised # "" =>
                   \E i \in tariffed :
                       \E ta \in tariff_assignment_at(out.scope, out.scope_id, cuts[i], "") :
                           resolve_unit_price_cents(out.scope, out.scope_id, ta, cuts[i]) = Null
            /\ \A d \in ReturnedDocs :
                   /\ \A i \in UntariffedSlices :
                          ~\E l \in d.lines : l.period_start = cuts[i]
                   /\ \A i \in tariffed : \A m \in meters_in_scope(out.scope, out.scope_id) :
                          energy_by_band(canon, MeterNo(m), cuts[i], cuts[i + 1]) > 0 =>
                              \E l \in d.lines : /\ l.meter_no = MeterNo(m)
                                                  /\ l.period_start = cuts[i]
                                                  /\ l.period_end = cuts[i + 1]

C14_Witness ==
    \E d \in ReturnedDocs :
        /\ UntariffedSlices # {}
        /\ \E l \in d.lines : l.period_start > d.period_start

(***************************************************************************)
(* Properties of the export state machine.                                 *)
(***************************************************************************)
StatusChain ==
    {<<"DRAFT", "READY">>, <<"READY", "EXPORTED">>, <<"EXPORTED", "FILESOK">>,
     <<"EXPORTED", "ACKERR">>, <<"FILESOK", "ACKOK">>, <<"ACKERR", "ACKOK">>}

\* C15 (document status state machine): every document starts as DRAFT and
\* each change of its status is a step of the chain DRAFT, READY, EXPORTED,
\* then FILESOK or ACKERR, then ACKOK; so no document is FILESOK, ACKERR or
\* ACKOK without having been EXPORTED, and none moves back.
C15_StatusStateMachine ==
    \A d \in docs :
        /\ d.trail[1] = "DRAFT"
        /\ \A i \in 1..(Len(d.trail) - 1) : <<d.trail[i], d.trail[i + 1]>> \in StatusChain

\* C16 (unknown scope type fails fast): a scope-resolver call (meters at an
\* instant, meters during a window, segments during a window) with a scope
\* type other than site, od_pod or pod raises an error; with a known scope
\* type and no assignments it returns an empty result without error.
C16_UnknownScopeFailsFast ==
    out.fn \in {"meters_in_scope_at", "meters_in_scope_during",
                "meter_segments_for_scope_during"} =>
        /\ out.scope \notin {"site", "od_pod", "pod"} => out.raised # ""
        /\ (out.scope \in {"site", "od_pod", "pod"}
               /\ ~\E a \in asg : a.scope = out.scope /\ a.scope_id = out.scope_id) =>
              /\ out.raised = ""
              /\ IF out.fn = "meter_segments_for_scope_during"
                 THEN out.segments = <<>> ELSE out.meters = {}

(***************************************************************************)
(* Properties of the ranking, the segments, the slices and the tariffs.    *)
(***************************************************************************)
\* The stated order: estimated false first, interpolated false first, quality
\* rank, lower source priority number first, later received_at first.
StatedRank(r) ==
    <<IF r.estimated THEN 1 ELSE 0, IF r.interpolated THEN 1 ELSE 0,
      CASE r.quality = "GOOD" -> 0 [] r.quality = "REPLACED" -> 1
        [] r.quality = "INTERPOLATED" -> 2 [] r.quality = "ESTIMATED" -> 3
        [] OTHER -> 4,
      SourcePriority(r.source), 0 - r.received_at>>

\* C17 (full ranking order): in every (meter, bucket) group the row either
\* consolidation chooses is a minimum of the group under the stated order, so
\* of rows equal on the first three keys the one of the source with the lower
\* priority number is chosen, then the one received last.
C17_FullRankingOrder ==
    \A w \in Windows : \A k \in WindowGroups(w[1], w[2]) :
        LET rows == WindowGroupRows(w[1], w[2], k)
        IN  /\ \A o \in rows : ~TupleLess(StatedRank(o), StatedRank(BestCounterRow(rows)))
            /\ \A o \in rows : ~TupleLess(StatedRank(o), StatedRank(choose_best_raw(rows)))

\* The instants of [from, to) on the minute axis.
Instants(from, to) == {t \in 0..75 : from <= t /\ t < to}

\* C18 (segments partition each assignment window): the segments derived from
\* one assignment are pairwise disjoint in time and together cover exactly the
\* assignment window clipped to [start, end), also when a replacement lies in
\* the query window but outside the assignment window and when the meter has
\* several replacements in the window.
C18_SegmentsPartition ==
    out.fn = "meter_segments_for_scope_during" =>
        LET bases == BaseSegmentsOf(RowsById(AssignmentsForScope(out.scope, out.scope_id)),
                                    out.start, out.end)
            known == {bases[i].meter_id : i \in 1..Len(bases)}
        IN  \A n \in 1..Len(bases) :
                LET segs == SegmentsOfBase(bases[n], out.start, out.end, known,
                                           out.apply_replacements)
                IN  /\ \A i, j \in 1..Len(segs) :
                           i # j => Instants(segs[i].from, segs[i].to)
                                       \cap Instants(segs[j].from, segs[j].to) = {}
                    /\ UNION {Instants(segs[i].from, segs[i].to) : i \in 1..Len(segs)}
                           = Instants(bases[n].seg_start, bases[n].seg_end)

\* The tariff assignments bound to the unit itself.
BoundTo(scope, scope_id) ==
    {t \in tariffs : \/ (scope = "pod" /\ t.pod_id = scope_id)
                     \/ (scope = "od_pod" /\ t.od_pod_id = scope_id)
                     \/ (scope = "site" /\ t.site_id = scope_id)}

\* C19 (exact slice boundary set): slice_boundaries returns a strictly
\* increasing list from start to end whose interior elements are exactly the
\* valid_from and valid_to values, strictly between start and end, of the
\* tariff assignments bound to the queried unit and of the VAT rows; tariff
\* assignments of other units add no boundary.
C19_ExactSliceBoundaries ==
    \A sc \in BillScopes, pd \in BillPeriods :
        pd[1] < pd[2] =>
            LET cuts == slice_boundaries(sc[1], sc[2], pd[1], pd[2])
                rows == BoundTo(sc[1], sc[2]) \cup vats
                inner == {x \in {r.valid_from : r \in rows} \cup {r.valid_to : r \in rows} :
                             x # Null /\ pd[1] < x /\ x < pd[2]}
            IN  /\ cuts[1] = pd[1] /\ cuts[Len(cuts)] = pd[2]
                /\ \A i \in 1..(Len(cuts) - 1) : cuts[i] < cuts[i + 1]
                /\ Range(cuts) = {pd[1], pd[2]} \cup inner

\* The tariff assignments of a level column and id that are valid at at_ts.
ValidAt(rows, at_ts) ==
    {t \in rows : /\ (t.valid_from = Null \/ t.valid_from <= at_ts)
                  /\ (t.valid_to = Null \/ t.valid_to > at_ts)}

\* C20 (most-specific tariff wins): for a POD, tariff_assignment_at returns
\* the POD-level assignment valid at the instant when there is one, otherwise
\* a valid assignment of the POD's own distribution-POD, otherwise one of its
\* own site, and never an assignment of a distribution-POD or site that is
\* not the POD's parent.
C20_MostSpecificTariff ==
    \A p \in Pods, at_ts \in {0, 15, 30, 45} :
        LET got == tariff_assignment_at("pod", p.id, at_ts, "")
            at_pod == ValidAt({t \in tariffs : t.pod_id = p.id}, at_ts)
            at_od == ValidAt({t \in tariffs : t.od_pod_id = p.od_pod_id}, at_ts)
            at_site == ValidAt({t \in tariffs : t.site_id = p.site_id}, at_ts)
        IN  /\ got \subseteq at_pod \cup at_od \cup at_site
            /\ at_pod # {} => got # {} /\ got \subseteq at_pod
            /\ (at_pod = {} /\ at_od # {}) => got # {} /\ got \subseteq at_od
            /\ (at_pod = {} /\ at_od = {} /\ at_site # {}) => got # {} /\ got \subseteq at_site

(***************************************************************************)
(* Properties of the rate lookups.                                         *)
(***************************************************************************)
\* The level at which tariff_assignment_at stops for a scope: the first of
\* POD, distribution-POD and site (each searched with the id given) that has
\* an assignment valid at the instant.
StopLevel(scope, scope_id, at_ts) ==
    LET at_pod == IF scope = "pod"
                  THEN ValidAt({t \in tariffs : t.pod_id = scope_id}, at_ts) ELSE {}
        at_od == IF scope \in {"pod", "od_pod"}
                 THEN ValidAt({t \in tariffs : t.od_pod_id = scope_id}, at_ts) ELSE {}
        at_site == ValidAt({t \in tariffs : t.site_id = scope_id}, at_ts)
    IN  IF at_pod # {} THEN at_pod ELSE IF at_od # {} THEN at_od ELSE at_site

\* C21 (operator filter preference): with an operator filter, when an
\* assignment of that operator is valid at the level where the search stops,
\* tariff_assignment_at returns an assignment of that operator, also when
\* another valid assignment of the level is primary or starts later; without
\* a filter it returns a primary assignment valid at the instant when the
\* level has one.
C21_OperatorPreference ==
    out.fn = "tariff_assignment_at" =>
        LET level == StopLevel(out.scope, out.scope_id, out.at_ts)
        IN  /\ out.result \subseteq level
            /\ (out.operator # "" /\ \E t \in level : t.operator = out.operator)
                   => \E t \in out.result : t.operator = out.operator
            /\ (out.operator = "" /\ \E t \in level : t.is_primary)
                   => \E t \in out.result : t.is_primary

\* C22 (VAT resolution): resolve_vat_rate_at returns the rate of the VAT row
\* with the latest valid_from among the rows whose window contains the
\* instant, and 0 only when no row's window contains it; a later row whose
\* window has closed does not hide an earlier row that is still valid.
C22_VatResolution ==
    out.fn = "resolve_vat_rate_at" =>
        LET covering == {v \in vats : /\ v.valid_from <= out.at_ts
                                      /\ (v.valid_to = Null \/ v.valid_to > out.at_ts)}
        IN  IF covering = {} THEN out.result = 0
            ELSE \E v \in covering :
                    /\ \A o \in covering : o.valid_from <= v.valid_from
                    /\ out.result = v.rate_percent

(***************************************************************************)
(* Properties of the estimation allocator.                                 *)
(***************************************************************************)
IsAllocated(r) == r.source = "ESTIMATE_CLIENT_SCOPE"

\* C23 (equal split over the meters active at the bucket): a synthetic row
\* written for bucket b belongs to one of the n meters assigned to the unit
\* at b, every meter assigned at b gets a row for b, and the counter written
\* is the meter's latest canonical counter at or before b plus E/n.
C23_EqualSplitAtBucket ==
    [][\A r \in raw' \ raw : IsAllocated(r) =>
          LET active == MetersInScopeAt("pod", 1, r.bucket_ts)
              prevs == LatestCanonAtOrBefore(canon, r.meter_no, r.bucket_ts)
          IN  /\ \E mid \in active : MeterNo(mid) = r.meter_no
              /\ \A mid \in active : \E q \in raw' :
                    IsAllocated(q) /\ q.meter_no = MeterNo(mid) /\ q.bucket_ts = r.bucket_ts
              /\ \E base_v \in {0} \cup {OrZero(c.active_import) : c \in prevs} :
                    /\ (prevs # {} => base_v \in {OrZero(c.active_import) : c \in prevs})
                    /\ r.active_import = base_v + (EstimateEnergy \div Cardinality(active))
      ]_vars

\* C24 (allocation overwrites instead of duplicating): the raw stream holds
\* at most one allocated row per (meter_no, bucket_ts), and an allocation run
\* leaves the raw rows of every other source as they were.
C24_AllocationOverwrites ==
    /\ [](\A r, q \in raw :
            (IsAllocated(r) /\ IsAllocated(q) /\ r.meter_no = q.meter_no
                /\ r.bucket_ts = q.bucket_ts) => r = q)
    /\ [][DoAllocate => {r \in raw' : ~IsAllocated(r)} = {r \in raw : ~IsAllocated(r)}]_vars

\* A row of another source and an allocated row share a bucket, and the
\* allocated row holds the value of a second allocation run for that bucket
\* (written over the first after the first had been consolidated).
C24_Witness ==
    \E r, q \in raw :
        /\ IsAllocated(r) /\ ~IsAllocated(q)
        /\ r.meter_no = q.meter_no /\ r.bucket_ts = q.bucket_ts
        /\ r.active_import = 2 * EstimateEnergy

\* C25 (allocation values are stable across a consolidation pass): with no
\* real raw data, an allocation run that writes again a bucket it had
\* allocated before writes the same counter; the bucket's own canonical row
\* (the consolidated estimate) does not add a further share.  The buckets
\* compared are those with no canonical reading of the meter before them, so
\* that the baseline of the two runs is the same.
C25_AllocationStable ==
    [][(DoAllocate /\ \A r \in raw : IsAllocated(r)) =>
          \A r \in raw, q \in raw' :
              (/\ r.meter_no = q.meter_no /\ r.bucket_ts = q.bucket_ts
               /\ ~\E c \in canon : c.meter_no = r.meter_no /\ c.timestamp < r.bucket_ts)
                  => q.active_import = r.active_import
      ]_vars

\* C26 (delta baseline and additivity): the energy of a meter over [s, e)
\* is the sum, over the readings inside [s, e), of max(curr - prev, 0) times
\* the constant of the step, where prev of the first reading inside is the
\* last reading before s; hence the energies over [s, t) and [t, e) add up
\* to the energy over [s, e) for every split point t.
C26_BaselineAdditive ==
    out.fn = "energy_by_band" =>
        LET mine == {c \in canon : c.meter_no = out.meter_no}
            inside == {c \in mine : out.s <= c.timestamp /\ c.timestamp < out.e}
            before == {c \in mine : c.timestamp < out.s}
            baseline == {c \in before : \A o \in before : o.timestamp <= c.timestamp}
            series == OrderByTimestamp(baseline \cup inside)
        IN  /\ out.qty = IF inside = {} THEN 0 ELSE DeltaFrom(series, 2)
            /\ \A t \in {c.timestamp : c \in mine} :
                  (out.s < t /\ t < out.e) =>
                      energy_by_band(canon, out.meter_no, out.s, t)
                          + energy_by_band(canon, out.meter_no, t, out.e) = out.qty

\* C27 (document estimated flag matches its lines): a billing document has
\* contains_estimated set if and only if one of its lines has; estimated
\* points of a meter and slice that produced no line do not set the flag.
C27_EstimatedFlagMatchesLines ==
    \A d \in docs : d.contains_estimated <=> \E l \in d.lines : l.contains_estimated

\* The canonical rows a step created, changed or removed.
CanonTouched == (canon' \ canon) \cup (canon \ canon')

\* The keys a consolidation over [start, end) with the meter filter may
\* write: the (meter_no, bucket) of the raw rows whose bucket lies in the
\* window (the bucket of a row without bucket_ts is that of its timestamp).
FrameKeys(start, end, meter_nos) ==
    {<<r.meter_no, ServiceBucket(r)>> : r \in
        {x \in raw : /\ start <= ServiceBucket(x) /\ ServiceBucket(x) < end
                     /\ (meter_nos = {} \/ x.meter_no \in meter_nos)}}

\* C28 (consolidation frame): a consolidation over [start, end) creates or
\* changes only canonical rows keyed by the (meter_no, bucket) of a raw row
\* whose bucket lies in [start, end) and whose meter passes the filter; every
\* other canonical row and every raw row stay as they were.
C28_ConsolidationFrame ==
    [][\A w \in Windows \cup {<<20, 30>>}, mns \in MeterFilters :
          (ConsolidateCounters(w[1], w[2], mns) \/ consolidate_raw_to_canonical(w[1], w[2], mns))
              => /\ raw' = raw
                 /\ \A c \in CanonTouched :
                       <<c.meter_no, c.timestamp>> \in FrameKeys(w[1], w[2], mns)
      ]_vars

\* The raw row a canonical row names as chosen.
ChosenRaw(c) ==
    {r \in raw : /\ r.id = c.chosen_raw_id /\ r.meter_no = c.meter_no
                 /\ r.source = c.chosen_source_code /\ ServiceBucket(r) = c.timestamp}

\* C29 (constant resolution): the constant a consolidation stores in a
\* canonical row is the chosen raw row's constant when it has one, otherwise
\* the constant of the meter's history row valid at the bucket, otherwise the
\* meter's constant.
C29_ConstantResolution ==
    [][\A c \in canon' \ canon :
          \E r \in ChosenRaw(c) :
              c.constant = resolve_constant(c.meter_no, c.timestamp, r.constant)
      ]_vars

(***************************************************************************)
(* Properties of the scheduler.                                            *)
(***************************************************************************)
\* C30 (scheduler periodicity and isolation): the first pass starts every
\* registered job; a pass starts a job exactly when the job has never run or
\* its interval has passed since its previous start, not sooner and, whatever
\* tasks are in flight or have raised, not later; the next pass is always
\* possible and every job is started again and again.  In a run of the
\* ingest job every meter is tried, whichever loaders failed, and the
\* consolidation follows.
C30_SchedulerIsolation ==
    /\ []((\A j \in Jobs : sched.since[j] = Null) \/ (\A j \in Jobs : sched.since[j] # Null))
    /\ [][run_forever =>
             \A j \in Jobs : j \in sched'.started <=>
                 (sched.since[j] = Null \/ sched.since[j] + 1 = every[j])]_vars
    /\ [](ENABLED run_forever)
    /\ \A j \in Jobs : []<><<run_forever /\ j \in sched'.started>>_vars
    /\ [](sched.consolidate # "none" =>
             sched.ingested \cup sched.failed = Range(METER_NOS))
    /\ [](sched.running["ingest"] > 0 => ENABLED job_ingest_and_consolidate(TRUE))

====
